---- MODULE Spec2Model ----
\* Lead Research Agent (conductResearch) of Parallel-Agents-Heavy as a state
\* machine: planning, the iteration loop with its parallel Search Subagent
\* tasks, follow-up generation, synthesis, citation and the top-level catch
\* (Spec, FairSpec); one executeTask call of the Search Subagent (SearchSpec);
\* one addCitations call of the Citation Agent (CiteSpec); the numbers a query
\* carries (QuerySpec); one run call of an agent's tool-use loop (AgentSpec);
\* the sufficiency heuristic applied to collected results (HeuristicSpec); the
\* search tool's request queue shared by the tasks of a round (QueueSpec); one
\* _generateSearchQueries call of the Search Subagent (GenerateSpec); one
\* search request through the cache wrapper of the search tool (RequestSpec);
\* one processQuery call of the orchestrator (OrchestratorSpec).
EXTENDS Integers, Sequences, FiniteSets, TLC

VARIABLES
  query,        \* the ResearchQuery given to conductResearch
  max_agents,   \* config.orchestrator.max_agents
  pc,           \* position of the conductResearch coroutine
  statusCalls,  \* the status values handed to MemoryStore.setStatus, in order
  store,        \* what the key-value store holds for this research_id
  uuids,        \* number of randomUUID() values drawn so far
  tasks,        \* heap of SubAgentTask objects, indexed by object reference
  plan,         \* the ResearchPlan (subtasks are references into tasks)
  context,      \* the ResearchContext (pending_tasks are references into tasks)
  results,      \* the results array of _executeResearchPlan
  dispatched,   \* tasksToExecute of the current _executePendingTasks call
  tproc,        \* per task reference: the state of its async map callback
                \* (nth: its promise was the nth of its round to settle)
  llm,          \* the completion outcome just consumed by planning / follow-up
  report,       \* the synthesized report
  error,        \* the exception caught by (or escaping) conductResearch
  result,       \* the ResearchResult returned
  searchAgent,  \* one SearchSubAgent.executeTask call: its position and locals
  citationAgent, \* one CitationAgent.addCitations call: its position and locals
  queryRun,     \* the numbers of a ResearchQuery, the planning prompt and the rounds
  agentRun,     \* one BaseAgent.run call: its position and locals
  heuristicRun, \* one _needsMoreResearch call: its argument and return value
  searchQueue,  \* the RequestQueue singleton and the tasks whose searches use it
  queryGen, \* one _generateSearchQueries call: its position and locals
  searchRequest, \* one search request of SearchTool.execute: the cache wrapper
                 \* around _performSearch and its HTTP attempts
  orchestration \* one Orchestrator.processQuery call: its position and locals

leadVars == <<query, max_agents, pc, statusCalls, store, uuids, tasks, plan, context,
              results, dispatched, tproc, llm, report, error, result>>
agentVars == <<searchAgent, citationAgent, queryRun, agentRun, heuristicRun, searchQueue,
    queryGen, searchRequest, orchestration>>
\* what the steps of one component leave alone
searchFrame == <<leadVars, citationAgent, queryRun, agentRun, heuristicRun, searchQueue,
    queryGen, searchRequest, orchestration>>
citeFrame == <<leadVars, searchAgent, queryRun, agentRun, heuristicRun, searchQueue,
    queryGen, searchRequest, orchestration>>
queryFrame == <<leadVars, searchAgent, citationAgent, agentRun, heuristicRun, searchQueue,
    queryGen, searchRequest, orchestration>>
agentFrame == <<leadVars, searchAgent, citationAgent, queryRun, heuristicRun, searchQueue,
    queryGen, searchRequest, orchestration>>
heuristicFrame == <<leadVars, searchAgent, citationAgent, queryRun, agentRun, searchQueue,
    queryGen, searchRequest, orchestration>>
queueFrame == <<leadVars, searchAgent, citationAgent, queryRun, agentRun, heuristicRun,
    queryGen, searchRequest, orchestration>>
generateFrame == <<leadVars, searchAgent, citationAgent, queryRun, agentRun, heuristicRun,
    searchQueue, searchRequest, orchestration>>
requestFrame == <<leadVars, searchAgent, citationAgent, queryRun, agentRun, heuristicRun,
    searchQueue, queryGen, orchestration>>
orchestratorFrame == <<leadVars, searchAgent, citationAgent, queryRun, agentRun, heuristicRun,
    searchQueue, queryGen, searchRequest>>
vars == <<leadVars, agentVars>>

-----------------------------------------------------------------------------
\* Bounds of the model
MaxIterationsInput == 2   \* query.max_iterations is drawn from 0..MaxIterationsInput (0 = unset)
MaxAgentsInput == 2       \* max_agents is drawn from 0..MaxAgentsInput (0 = unset)
MaxPlanSubtasks == 2      \* the planning completion names at most this many subtasks
MaxTasks == 3             \* SubAgentTask objects created in one session
MaxQueries == 2           \* search queries generated for one task
MaxUrls == 2              \* distinct URLs the search capability returns
MaxPerQuery == 2          \* results parsed from one search response
MaxSearchesInput == 2     \* task.max_searches is drawn from 0..MaxSearchesInput (0 = unset)
MaxEvaluations == 2       \* entries of the evaluations list of the scoring completion
MaxSources == 2           \* sources given to addCitations (besides the long lists)
MaxClaims == 2            \* claims identified in a report
ReportSentences == 2      \* sentences of the report given to addCitations
MaxQueryNumber == 21      \* max_iterations and max_subagents of a query are drawn from -1..MaxQueryNumber
MaxConfigIterations == 4  \* config.agent.max_iterations is drawn from 1..MaxConfigIterations
MaxToolCalls == 2         \* tool calls of one completion
MaxResults == 2           \* results handed to the sufficiency heuristic
MaxQueueTasks == 3        \* tasks of a round whose searches pass through the request queue
MaxRequests == 2          \* search requests of one task
MaxSubTasks == 3          \* sub-tasks of one processQuery call
MaxObjectiveWords == 3    \* words of a task objective
MaxEnhanced == 2          \* query strings in the enhancement completion's array

\* Program constants
DefaultMaxIterations == 5
DefaultMaxConcurrent == 3
DefaultMaxSearches == 5
FollowupMaxSearches == 3
MinSources == 8
MinAvgRelevanceTenths == 7
QueryLimit == 5
DefaultTaskMaxSearches == 8
ParsedScoreTenths == 7
RelevanceThresholdTenths == 6
AuthorityScoreTenths == 7
OtherScoreTenths == 5
FallbackThresholdTenths == 5
DefaultScoreTenths == 5
FallbackFindings == 3
ClaimsLogged == 3
MatchConfidenceTenths == 6
SourceListLimit == 20
DefaultMaxSubagents == 3
QueryMinIterations == 1
QueryMaxIterations == 20
QueryMinSubagents == 1
QueryMaxSubagents == 10
RunDefaultMaxIterations == 10

QueryText == "original query"

-----------------------------------------------------------------------------
\* JSON values as the completion client's text may carry them
Absent == [t |-> "absent"]
Str(s) == [t |-> "str", s |-> s]
Arr(v) == [t |-> "arr", v |-> v]
Bool(b) == [t |-> "bool", b |-> b]
Num(n) == [t |-> "num", n |-> n]
Null == [t |-> "null"]

\* JavaScript truthiness of a JSON value (non-empty strings and arrays are truthy)
Truthy(j) ==
  /\ j.t \notin {"absent", "null"}
  /\ (j.t = "bool" => j.b)
  /\ (j.t = "num" => j.n # 0)

\* The object shapes probed by the agents
EmptyObj == [error |-> Absent, analysis |-> Absent, plan |-> Absent,
             subtasks |-> Absent, needs_followup |-> Absent,
             followup_tasks |-> Absent, evaluations |-> Absent,
             claims |-> Absent, best_match_index |-> Absent, confidence |-> Absent]

\* A completion text: without braces, with braces that are not JSON, or a JSON object
PlainText == [kind |-> "plain", obj |-> EmptyObj]
BadJsonText == [kind |-> "badjson", obj |-> EmptyObj]
JsonText(o) == [kind |-> "json", obj |-> o]

\* text.match(/\{[\s\S]*\}/)
RegexMatch(text) == text.kind \in {"badjson", "json"}
\* JSON.parse of the matched text succeeds
JsonParses(text) == text.kind = "json"
\* JSON.stringify of a parsed object
JsonStringify(o) == JsonText(o)

\* Errors are Error objects; a message is a sequence of string parts
NoError == [message |-> <<>>]
Err(m) == [message |-> m]
LlmErrorMessage == <<"completion call failed">>
MapTypeError == <<"TypeError: ", "map is not a function">>
JoinTypeError == <<"TypeError: ", "join is not a function">>
IsTypeError(e) == Len(e.message) > 0 /\ e.message[1] = "TypeError: "

\* A completion-client call either fails or returns a text
LlmFail == [call |-> "fail", text |-> PlainText]
LlmText(t) == [call |-> "ok", text |-> t]
NoLlm == [call |-> "none", text |-> PlainText]
\* the outcome together with the step that consumed it
For(step, resp) == [step |-> step, resp |-> resp]
NoCall == For("none", NoLlm)

\* BaseAgent.think
think(resp) ==
  IF resp.call = "fail"
  THEN [EmptyObj EXCEPT !.error = Str(LlmErrorMessage)]
  ELSE IF RegexMatch(resp.text) /\ JsonParses(resp.text)
       THEN resp.text.obj
       ELSE [EmptyObj EXCEPT !.analysis = Str(resp.text)]

-----------------------------------------------------------------------------
\* Planning

SubtaskDesc == [objective |-> "planned objective", search_focus |-> "planned focus",
                max_searches |-> 0]
FallbackSubtask(q) == [objective |-> q.query,
                       search_focus |-> "Comprehensive information gathering",
                       max_searches |-> DefaultMaxSearches]

\* The completion outcomes the planning call is checked against
PlanningResponses ==
  {LlmFail, LlmText(PlainText), LlmText(BadJsonText),
   LlmText(JsonText(EmptyObj)),
   LlmText(JsonText([EmptyObj EXCEPT !.plan = Str("nested")])),
   LlmText(JsonText([EmptyObj EXCEPT !.error = Str(<<"model refused">>)])),
   LlmText(JsonText([EmptyObj EXCEPT !.subtasks = Str("none")]))}
  \cup {LlmText(JsonText([EmptyObj EXCEPT !.subtasks = Arr([i \in 1..n |-> SubtaskDesc])])) :
          n \in 0..MaxPlanSubtasks}

\* lines 199-213: planData, re-parsed from an analysis / plan field when present
ExtractPlanData(thinkingResult) ==
  IF Truthy(thinkingResult.analysis) \/ Truthy(thinkingResult.plan)
  THEN LET textResponse == IF Truthy(thinkingResult.analysis)
                           THEN thinkingResult.analysis.s
                           ELSE JsonStringify(thinkingResult)
       IN IF RegexMatch(textResponse) /\ JsonParses(textResponse)
          THEN textResponse.obj
          ELSE thinkingResult
  ELSE thinkingResult

\* the fallback left empty instead of the single task made of the query
PlannedSubtasks_EmptyFallback(planData, q) ==
  IF Truthy(planData.subtasks) THEN planData.subtasks ELSE Arr(<<>>)

\* lines 216-222: planData.subtasks || [ single task with the query as objective ]
PlannedSubtasks(planData, q) ==
  IF Truthy(planData.subtasks) THEN planData.subtasks ELSE Arr(<<FallbackSubtask(q)>>)

\* _createResearchPlan: what it throws or the subtask descriptions it maps over
createResearchPlan(resp, q) ==
  LET thinkingResult == think(resp)
      planData == ExtractPlanData(thinkingResult)
      subs == PlannedSubtasks(planData, q)
  IN IF Truthy(thinkingResult.error)
     THEN [threw |-> TRUE, error |-> Err(<<"Planning failed: ">> \o thinkingResult.error.s),
           subtasks |-> <<>>]
     ELSE IF subs.t # "arr"
          THEN [threw |-> TRUE, error |-> Err(MapTypeError), subtasks |-> <<>>]
          ELSE [threw |-> FALSE, error |-> NoError, subtasks |-> subs.v]

\* generateTaskId: the n-th randomUUID() value
generateTaskId(n) == n

\* lines 223-230: the SubAgentTask built for the i-th description
NewSubAgentTask(desc, id) ==
  [task_id |-> id, objective |-> desc.objective, search_focus |-> desc.search_focus,
   max_searches |-> IF desc.max_searches = 0 THEN DefaultMaxSearches ELSE desc.max_searches,
   status |-> "pending"]

-----------------------------------------------------------------------------
\* Search Subagent results

Source(u, score) == [url |-> u, relevance_score |-> score]   \* score in tenths
\* the sources one successful task brings: half of what the heuristic asks for
TaskSources(task) ==
  [i \in 1..(MinSources \div 2) |-> Source(task.task_id * MinSources + i, 8)]

NoSubAgentResult == [task_id |-> 0, findings |-> <<>>, sources |-> <<>>,
                     summary |-> <<>>, token_count |-> 0]

\* line 137 of the Search Subagent: every failure is rethrown under this prefix
ExecuteTaskError == Err(<<"Search task failed: ", "search backend down">>)

\* SearchSubAgent.executeTask, seen from the lead agent: it returns a result
\* carrying the task's own task_id, or throws Error("Search task failed: ...")
ExecuteTaskOutcomes(task) ==
  {[threw |-> FALSE, error |-> NoError,
    value |-> [task_id |-> task.task_id, findings |-> <<"finding">>,
               sources |-> TaskSources(task),
               summary |-> <<"summary of findings">>, token_count |-> 1]]}
  \cup {[threw |-> TRUE, error |-> ExecuteTaskError,
         value |-> NoSubAgentResult]}

\* the error message lost from the summary
FailedTaskResult_NoMessage(task, e) ==
  [task_id |-> task.task_id, findings |-> <<>>, sources |-> <<>>,
   summary |-> <<"Task failed: ", "Unknown error">>, token_count |-> 0]

\* lines 320-326: the result standing in for a task whose executeTask threw
FailedTaskResult(task, e) ==
  [task_id |-> task.task_id, findings |-> <<>>, sources |-> <<>>,
   summary |-> <<"Task failed: ">> \o e.message, token_count |-> 0]

\* results.flatMap(r => r.sources)
RECURSIVE FlatSources(_)
FlatSources(rs) ==
  IF rs = <<>> THEN <<>> ELSE Head(rs).sources \o FlatSources(Tail(rs))

RECURSIVE SumRelevance(_)
SumRelevance(ss) ==
  IF ss = <<>> THEN 0 ELSE Head(ss).relevance_score + SumRelevance(Tail(ss))

RECURSIVE SumTokens(_)
SumTokens(rs) ==
  IF rs = <<>> THEN 0 ELSE Head(rs).token_count + SumTokens(Tail(rs))

\* the URLs of a list of sources
UrlsOf(ss) == {ss[i].url : i \in 1..Len(ss)}

\* the heuristic counting each URL once
needsMoreResearch_DistinctUrls(rs) ==
  LET all == FlatSources(rs) IN
  \/ Cardinality(UrlsOf(all)) < MinSources
  \/ Len(all) > 0 /\ SumRelevance(all) < MinAvgRelevanceTenths * Len(all)

\* _needsMoreResearch: totalSources < 8 || avgRelevance < 0.7, where the average
\* is 0 without results and NaN (never below 0.7) with results but no source
needsMoreResearch(rs) ==
  LET all == FlatSources(rs)
      totalSources == Len(all)
      avgBelow == IF Len(rs) = 0 THEN TRUE
                  ELSE IF totalSources = 0 THEN FALSE
                  ELSE SumRelevance(all) < MinAvgRelevanceTenths * totalSources
  IN totalSources < MinSources \/ avgBelow

-----------------------------------------------------------------------------
\* Follow-up generation

FollowUpDesc(aq, fa) == [reason |-> "gap", additional_queries |-> aq, focus_areas |-> fa]
GoodAreas == Arr(<<"area">>)

FollowupLists ==
  {<<>>,
   <<FollowUpDesc(Absent, Absent)>>,
   <<FollowUpDesc(Arr(<<"follow-up query 1">>), GoodAreas)>>,
   <<FollowUpDesc(Arr(<<"follow-up query 1", "follow-up query 2">>), GoodAreas)>>,
   <<FollowUpDesc(Arr(<<"follow-up query 1">>), Absent),
     FollowUpDesc(Arr(<<"follow-up query 2">>), GoodAreas)>>,
   <<FollowUpDesc(Str("a query"), GoodAreas)>>,
   <<FollowUpDesc(Arr(<<"follow-up query 1">>), Str("an area"))>>}

\* The completion outcomes the follow-up call is checked against
FollowupResponses ==
  {LlmFail, LlmText(PlainText),
   LlmText(JsonText([EmptyObj EXCEPT !.needs_followup = Bool(FALSE)])),
   LlmText(JsonText([EmptyObj EXCEPT !.needs_followup = Bool(TRUE)])),
   LlmText(JsonText([EmptyObj EXCEPT !.needs_followup = Bool(TRUE),
                                     !.followup_tasks = Str("none")]))}
  \cup {LlmText(JsonText([EmptyObj EXCEPT !.needs_followup = Bool(TRUE),
                                          !.followup_tasks = Arr(l)])) :
          l \in FollowupLists}

\* _createFollowupTasks: what it throws or the FollowUpTask list it returns;
\* ids are drawn from the UUIDs after the first `from`
createFollowupTasks(resp, from) ==
  LET thinkingResult == think(resp)
      list == IF Truthy(thinkingResult.followup_tasks)
              THEN thinkingResult.followup_tasks ELSE Arr(<<>>)
  IN IF Truthy(thinkingResult.error) \/ ~Truthy(thinkingResult.needs_followup)
     THEN [threw |-> FALSE, error |-> NoError, value |-> <<>>]
     ELSE IF list.t # "arr"
          THEN [threw |-> TRUE, error |-> Err(MapTypeError), value |-> <<>>]
          ELSE [threw |-> FALSE, error |-> NoError,
                value |-> [i \in 1..Len(list.v) |->
                   [task_id |-> generateTaskId(from + i),
                    reason |-> list.v[i].reason,
                    additional_queries |-> IF Truthy(list.v[i].additional_queries)
                                           THEN list.v[i].additional_queries ELSE Arr(<<>>),
                    focus_areas |-> IF Truthy(list.v[i].focus_areas)
                                    THEN list.v[i].focus_areas ELSE Arr(<<>>)]]]

\* every query of a follow-up entry given the entry's own task_id
TasksOfFollowUp_SharedId(f, from) ==
  [j \in 1..Len(f.additional_queries.v) |->
     [task_id |-> f.task_id, objective |-> f.additional_queries.v[j],
      search_focus |-> "joined focus areas", max_searches |-> FollowupMaxSearches,
      status |-> "pending"]]

\* lines 272-279: the SubAgentTasks made of one FollowUpTask's additional_queries
TasksOfFollowUp(f, from) ==
  [j \in 1..Len(f.additional_queries.v) |->
     [task_id |-> generateTaskId(from + j), objective |-> f.additional_queries.v[j],
      search_focus |-> "joined focus areas", max_searches |-> FollowupMaxSearches,
      status |-> "pending"]]

\* lines 271-280: followUpTasks.flatMap(...), with the TypeError of a .map or
\* .join on a value that is no array
RECURSIVE FollowupSubAgentTasks(_, _)
FollowupSubAgentTasks(fs, from) ==
  IF fs = <<>> THEN [threw |-> FALSE, error |-> NoError, value |-> <<>>]
  ELSE LET f == Head(fs) IN
    IF f.additional_queries.t # "arr"
    THEN [threw |-> TRUE, error |-> Err(MapTypeError), value |-> <<>>]
    ELSE IF Len(f.additional_queries.v) > 0 /\ f.focus_areas.t # "arr"
    THEN [threw |-> TRUE, error |-> Err(JoinTypeError), value |-> <<>>]
    ELSE LET mine == TasksOfFollowUp(f, from)
             rest == FollowupSubAgentTasks(Tail(fs), from + Len(mine))
         IN IF rest.threw THEN rest
            ELSE [threw |-> FALSE, error |-> NoError, value |-> mine \o rest.value]

-----------------------------------------------------------------------------
\* Memory store (utils/memory.ts): every write is wrapped in try/catch, so a
\* failing redis.set leaves the store as it was and raises nothing

St(name, k) == [s |-> name, k |-> k]
NoStatus == St("none", 0)
NoContext == [pending_tasks |-> <<>>, completed_tasks |-> <<>>, iteration_count |-> 0]
NoPlan == [strategy |-> "", subtasks |-> <<>>]
NoResearchResult == [query |-> "", report |-> Absent, citations |-> <<>>,
                     sources_used |-> <<>>, total_tokens_used |-> 0]

\* what redis.set fails with
StoreWriteError == Err(<<"redis connection lost">>)

\* every catch block rethrowing what it caught
WriteThrows_Rethrown(ok) == ~ok

\* the catch block of every MemoryStore write (lines 22-24, 51-53, 74-76,
\* 97-99): the error is logged and dropped, the returned promise resolves
WriteThrows(ok) == FALSE

\* MemoryStore.setStatus / saveContext / saveResult / saveTaskProgress
setStatus(st, status, ok) == IF ok THEN [st EXCEPT !.status = status] ELSE st
saveContext(st, ctx, ok) == IF ok THEN [st EXCEPT !.context = ctx] ELSE st
saveResult(st, res, ok) == IF ok THEN [st EXCEPT !.result = res] ELSE st
\* the progress:<research_id>:<task_id> keys are written and never read by the
\* research flow; the model keeps the status, context and result keys only
saveTaskProgress(st, taskId, progress, ok) == st

-----------------------------------------------------------------------------
\* conductResearch

\* query.max_iterations || 5
maxIterations(q) == IF q.max_iterations = 0 THEN DefaultMaxIterations ELSE q.max_iterations
\* this.config.orchestrator.max_agents || 3
maxConcurrent(cfg) == IF cfg = 0 THEN DefaultMaxConcurrent ELSE cfg

Min(a, b) == IF a < b THEN a ELSE b

\* every pending task selected, the slice forgotten
TasksToExecute_All(pending, cfg) == pending

\* context.pending_tasks.slice(0, maxConcurrent)
TasksToExecute(pending, cfg) == SubSeq(pending, 1, Min(Len(pending), maxConcurrent(cfg)))

\* the round numbered by the completed tasks instead of iteration_count
IterationStatus_ByCompleted(ctx) ==
  St("executing_iteration", Len(ctx.completed_tasks) + 1)

\* line 254: `executing_iteration_${context.iteration_count}`
IterationStatus(ctx) == St("executing_iteration", ctx.iteration_count)

\* the loop bounded by the pending tasks alone
LoopCondition_PendingOnly(ctx, q) == Len(ctx.pending_tasks) > 0

\* the while condition of _executeResearchPlan
LoopCondition(ctx, q) ==
  ctx.iteration_count < maxIterations(q) /\ Len(ctx.pending_tasks) > 0

\* Promise.all(promises) rejects as soon as one of the promises has rejected
AnyRejected(refs, tp) == \E i \in 1..Len(refs) : tp[refs[i]].pc = "rejected"

\* the join resolving with the first settled callback
AnySettled(refs, tp) == \E i \in 1..Len(refs) : tp[refs[i]].pc = "settled"

\* Promise.all(promises) resolves when all of the promises have resolved
AllSettled(refs, tp) == \A i \in 1..Len(refs) : tp[refs[i]].pc = "settled"

\* how many callbacks of a round have settled
SettledInRound(tp, k) ==
  Cardinality({r \in 1..Len(tp) : tp[r].round = k /\ tp[r].pc = "settled"})

\* the values taken in the order in which the promises settled
IterationResults_InSettleOrder(refs, tp) ==
  [i \in 1..Len(refs) |->
     tp[CHOOSE r \in {refs[j] : j \in 1..Len(refs)} : tp[r].nth = i].value]

\* line 330: Promise.all resolves with the values in the order of the promises
\* array (the order of tasksToExecute), whatever the order of settling
IterationResults(refs, tp) == [i \in 1..Len(refs) |-> tp[refs[i]].value]

\* the executed tasks left in pending_tasks
RemainingPending_Unfiltered(pending, iterationResults, heap) == pending

\* failed tasks left pending for another attempt
RemainingPending_KeepsFailed(pending, iterationResults, heap) ==
  SelectSeq(pending, LAMBDA ref :
    \/ heap[ref].status = "failed"
    \/ ~\E i \in 1..Len(iterationResults) : iterationResults[i].task_id = heap[ref].task_id)

\* every pending task dropped after a round
RemainingPending_None(pending, iterationResults, heap) == <<>>

\* lines 262-264: the pending tasks that no iteration result names
RemainingPending(pending, iterationResults, heap) ==
  SelectSeq(pending, LAMBDA ref :
    ~\E i \in 1..Len(iterationResults) : iterationResults[i].task_id = heap[ref].task_id)

\* the assignment resetting the task's search budget as well
SetTaskStatus_ResetsBudget(heap, r, status) ==
  [heap EXCEPT ![r].status = status, ![r].max_searches = 0]

\* lines 303, 310 and 316: task.status = ..., on the task object that pending_tasks
\* and plan.subtasks both refer to
SetTaskStatus(heap, r, status) == [heap EXCEPT ![r].status = status]

\* whether a throw at this position is inside the try block of conductResearch
InTry(p) == p \notin {"start", "catch", "returned", "rejected"}

\* the error text lost from the failure report
FailedResearchResult_NoMessage(q, e) ==
  [query |-> q.query, report |-> Str(<<"Research failed: ", "Unknown error">>),
   citations |-> <<>>, sources_used |-> <<>>, total_tokens_used |-> 0]

\* lines 145-153: the ResearchResult of the catch block
FailedResearchResult(q, e) ==
  [query |-> q.query, report |-> Str(<<"Research failed: ">> \o e.message),
   citations |-> <<>>, sources_used |-> <<>>, total_tokens_used |-> 0]

\* lines 125-133: the ResearchResult of the success path
FinalResearchResult(q, cited, rs) ==
  [query |-> q.query, report |-> cited.report, citations |-> cited.citations,
   sources_used |-> FlatSources(rs), total_tokens_used |-> SumTokens(rs)]

\* CitationAgent.addCitations, seen from the lead agent: the report with markers
\* and a bibliography, or (on any internal failure) with a plain source list
AddCitationsOutcomes(rep, sources) ==
  {[report |-> Str(rep.s \o <<"## References">>),
    citations |-> IF sources = <<>> THEN <<>> ELSE <<Head(sources).url>>],
   [report |-> Str(rep.s \o <<"## Sources">>),
    citations |-> IF sources = <<>> THEN <<>> ELSE <<Head(sources).url>>]}

\* no executeTask call is followed step by step
SearchAgentIdle ==
  [pc |-> "idle", task |-> [task_id |-> 0, max_searches |-> 0], searchQueries |-> 0,
   i |-> 0, started |-> <<>>, invocations |-> <<>>, seen |-> <<>>, allResults |-> <<>>,
   llm |-> NoLlm,
   evaluatedResults |-> <<>>, findings |-> <<>>, summary |-> <<>>, error |-> NoError]

LeadInit ==
  /\ query \in [query : {QueryText}, max_iterations : 0..MaxIterationsInput]
  /\ max_agents \in 0..MaxAgentsInput
  /\ pc = "start"
  /\ statusCalls = <<>>
  /\ store = [status |-> NoStatus, context |-> NoContext, result |-> NoResearchResult]
  /\ uuids = 0
  /\ tasks = <<>>
  /\ plan = NoPlan
  /\ context = NoContext
  /\ results = <<>>
  /\ dispatched = <<>>
  /\ tproc = <<>>
  /\ llm = NoCall
  /\ report = Absent
  /\ error = NoError
  /\ result = NoResearchResult

\* no addCitations call is followed step by step
CitationAgentIdle ==
  [pc |-> "idle", report |-> <<>>, sources |-> <<>>, claims |-> Absent, k |-> 0,
   matches |-> <<>>, citationCounter |-> 1, fellBack |-> FALSE,
   result |-> [report |-> <<>>, citations |-> <<>>]]

\* no query is followed over its numbers
QueryRunIdle ==
  [pc |-> "idle", query |-> [max_iterations |-> 0, max_subagents |-> 0], planned |-> 0,
   ctx |-> [iteration_count |-> 0, pending_tasks |-> <<>>]]

\* no request queue is followed
SearchQueueUnused == [pc |-> "unused"]

\* no _generateSearchQueries call is followed step by step
QueryGenIdle ==
  [pc |-> "idle", objective |-> <<>>, search_focus |-> <<>>, keyTerms |-> <<>>,
   deterministicQueries |-> <<>>, enhancement |-> "none", enhancedQueries |-> <<>>,
   uniqueQueries |-> <<>>]

\* no search request is followed
SearchRequestIdle ==
  [pc |-> "idle", lookup |-> "none", invocations |-> 0, fallback |-> FALSE,
   attempt |-> 0, http |-> <<>>, results |-> 0]

\* no processQuery call is followed
OrchestrationIdle ==
  [pc |-> "idle", completion |-> <<>>, results |-> <<>>, answers |-> <<>>,
   finalAnswer |-> <<>>]

\* no _needsMoreResearch call is followed
HeuristicRunIdle == [pc |-> "idle", results |-> <<>>, needsMore |-> FALSE]

\* no run call is followed step by step
AgentRunIdle ==
  [pc |-> "idle", config |-> [max_iterations |-> 0], caller |-> "", maxIterations |-> 0,
   iteration |-> 0, calls |-> 0, messages |-> 0, toolResults |-> <<>>, result |-> <<>>]

Init ==
  /\ LeadInit
  /\ searchAgent = SearchAgentIdle
  /\ citationAgent = CitationAgentIdle
  /\ queryRun = QueryRunIdle
  /\ agentRun = AgentRunIdle
  /\ heuristicRun = HeuristicRunIdle
  /\ searchQueue = SearchQueueUnused
  /\ queryGen = QueryGenIdle
  /\ searchRequest = SearchRequestIdle
  /\ orchestration = OrchestrationIdle

\* an exception: caught by the try block, or escaping conductResearch
Raise(e) ==
  /\ pc' = IF InTry(pc) THEN "catch" ELSE "rejected"
  /\ error' = e

\* `await this.memoryStore.<write>(...)`: the lead agent goes on to `next`
\* when the promise resolves and takes the exception when it rejects
AwaitWrite(ok, next) ==
  IF WriteThrows(ok) THEN Raise(StoreWriteError)
  ELSE pc' = next /\ UNCHANGED error

\* line 46
SetStatusPlanning ==
  /\ pc = "start"
  /\ \E ok \in BOOLEAN :
       /\ store' = setStatus(store, St("planning", 0), ok)
       /\ AwaitWrite(ok, "plan")
  /\ statusCalls' = Append(statusCalls, St("planning", 0))
  /\ UNCHANGED <<query, max_agents, uuids, tasks, plan, context, results, dispatched,
                 tproc, llm, report, result>>
  /\ UNCHANGED agentVars

\* lines 52-85: _createResearchPlan, the context built from it, saveContext
CreateResearchPlan ==
  /\ pc = "plan"
  /\ \E resp \in PlanningResponses :
       LET out == createResearchPlan(resp, query)
           n == Len(out.subtasks)
           new == [i \in 1..n |-> NewSubAgentTask(out.subtasks[i], generateTaskId(uuids + i))]
           ctx == [pending_tasks |-> [i \in 1..n |-> Len(tasks) + i],
                   completed_tasks |-> <<>>, iteration_count |-> 0]
       IN /\ llm' = For("planning", resp)
          /\ IF out.threw
             THEN /\ Raise(out.error)
                  /\ UNCHANGED <<store, uuids, tasks, plan, context, tproc>>
             ELSE /\ tasks' = tasks \o new
                  /\ tproc' = tproc \o [i \in 1..n |->
                        [pc |-> "idle", round |-> 0, nth |-> 0, value |-> NoSubAgentResult]]
                  /\ uuids' = uuids + n
                  /\ plan' = [strategy |-> "Comprehensive multi-angle research approach",
                              subtasks |-> [i \in 1..n |-> Len(tasks) + i]]
                  /\ context' = ctx
                  /\ \E ok \in BOOLEAN :
                       /\ store' = saveContext(store, ctx, ok)
                       /\ AwaitWrite(ok, "executing")
  /\ UNCHANGED <<query, max_agents, statusCalls, results, dispatched, report, result>>
  /\ UNCHANGED agentVars

\* line 89
SetStatusExecuting ==
  /\ pc = "executing"
  /\ \E ok \in BOOLEAN :
       /\ store' = setStatus(store, St("executing", 0), ok)
       /\ AwaitWrite(ok, "loop")
  /\ statusCalls' = Append(statusCalls, St("executing", 0))
  /\ llm' = NoCall
  /\ UNCHANGED <<query, max_agents, uuids, tasks, plan, context, results, dispatched,
                 tproc, report, result>>
  /\ UNCHANGED agentVars

\* lines 250-257 and 293-304: one more iteration; every selected task's callback
\* runs up to its first await (status running, saveTaskProgress issued)
StartIteration ==
  /\ pc = "loop"
  /\ LoopCondition(context, query)
  /\ LET k == context.iteration_count + 1
         sel == TasksToExecute(context.pending_tasks, max_agents)
         chosen == {sel[i] : i \in 1..Len(sel)}
     IN /\ context' = [context EXCEPT !.iteration_count = k]
        /\ statusCalls' = Append(statusCalls, IterationStatus(context'))
        /\ \E ok \in BOOLEAN :
             /\ store' = setStatus(store, IterationStatus(context'), ok)
             /\ AwaitWrite(ok, "await_all")
             /\ IF WriteThrows(ok)
                THEN UNCHANGED <<dispatched, tasks, tproc>>
                ELSE /\ dispatched' = sel
                     /\ tasks' = [r \in 1..Len(tasks) |->
                                    IF r \in chosen
                                    THEN SetTaskStatus(tasks, r, "running")[r]
                                    ELSE tasks[r]]
                     /\ tproc' = [r \in 1..Len(tproc) |->
                                    IF r \in chosen
                                    THEN [pc |-> "save_running", round |-> k, nth |-> 0,
                                          value |-> NoSubAgentResult]
                                    ELSE tproc[r]]
  /\ llm' = NoCall
  /\ UNCHANGED <<query, max_agents, uuids, plan, results, report, result>>
  /\ UNCHANGED agentVars

\* line 304 returns; line 307 calls executeTask
TaskProgressSaved(r) ==
  /\ tproc[r].pc = "save_running"
  /\ \E ok \in BOOLEAN :
       /\ store' = saveTaskProgress(store, tasks[r].task_id, "running", ok)
       /\ tproc' = [tproc EXCEPT ![r].pc = IF WriteThrows(ok) THEN "rejected"
                                           ELSE "executeTask"]
  /\ UNCHANGED <<query, max_agents, pc, statusCalls, uuids, tasks, plan, context,
                 results, dispatched, llm, report, error, result>>
  /\ UNCHANGED agentVars

\* lines 307-326: executeTask returns or throws; the task's status and the
\* callback's value are set, the last saveTaskProgress is issued
ExecuteTaskSettles(r) ==
  /\ tproc[r].pc = "executeTask"
  /\ \E out \in ExecuteTaskOutcomes(tasks[r]) :
       /\ tasks' = SetTaskStatus(tasks, r, IF out.threw THEN "failed" ELSE "completed")
       /\ tproc' = [tproc EXCEPT ![r].pc = "save_final",
                                 ![r].value = IF out.threw
                                              THEN FailedTaskResult(tasks[r], out.error)
                                              ELSE out.value]
  /\ UNCHANGED <<query, max_agents, pc, statusCalls, store, uuids, plan, context,
                 results, dispatched, llm, report, error, result>>
  /\ UNCHANGED agentVars

\* line 311 / 317 returns; the callback's promise settles. A rejection of the
\* write of line 311 is caught at line 314 like a failure of executeTask; a
\* rejection of the write of line 317 rejects the callback's promise
TaskSettled(r) ==
  /\ tproc[r].pc = "save_final"
  /\ \E ok, okInCatch \in BOOLEAN :
       LET caught == tasks[r].status = "completed" /\ WriteThrows(ok)
           rejects == IF tasks[r].status = "completed"
                      THEN WriteThrows(ok) /\ WriteThrows(okInCatch)
                      ELSE WriteThrows(ok)
           st1 == saveTaskProgress(store, tasks[r].task_id, tasks[r].status, ok)
       IN /\ store' = IF caught
                      THEN saveTaskProgress(st1, tasks[r].task_id, "failed", okInCatch)
                      ELSE st1
          /\ tasks' = IF caught THEN SetTaskStatus(tasks, r, "failed") ELSE tasks
          /\ tproc' = [tproc EXCEPT
                ![r].pc = IF rejects THEN "rejected" ELSE "settled",
                ![r].nth = IF rejects THEN 0
                           ELSE 1 + SettledInRound(tproc, tproc[r].round),
                ![r].value = IF caught THEN FailedTaskResult(tasks[r], StoreWriteError)
                             ELSE @]
  /\ UNCHANGED <<query, max_agents, pc, statusCalls, uuids, plan, context,
                 results, dispatched, llm, report, error, result>>
  /\ UNCHANGED agentVars

\* lines 330 and 258-266: Promise.all resolves; results recorded, tasks moved
\* from pending to completed, context saved
PromiseAllResolves ==
  /\ pc = "await_all"
  /\ IF AnyRejected(dispatched, tproc)
     THEN /\ Raise(StoreWriteError)
          /\ UNCHANGED <<results, context, store>>
     ELSE /\ AllSettled(dispatched, tproc)
          /\ LET iterationResults == IterationResults(dispatched, tproc)
                 ctx == [context EXCEPT
                           !.completed_tasks = @ \o iterationResults,
                           !.pending_tasks = RemainingPending(@, iterationResults, tasks)]
             IN /\ results' = results \o iterationResults
                /\ context' = ctx
                /\ \E ok \in BOOLEAN :
                     /\ store' = saveContext(store, ctx, ok)
                     /\ AwaitWrite(ok, "needs_more")
  /\ dispatched' = <<>>
  /\ UNCHANGED <<query, max_agents, statusCalls, uuids, tasks, plan, tproc, llm,
                 report, result>>
  /\ UNCHANGED agentVars

\* lines 269-283: the sufficiency heuristic and, when it asks for more, the
\* follow-up tasks appended to pending_tasks
CheckNeedsMoreResearch ==
  /\ pc = "needs_more"
  /\ IF needsMoreResearch(results)
     THEN \E resp \in FollowupResponses :
       LET fu == createFollowupTasks(resp, uuids)
           sub == FollowupSubAgentTasks(fu.value, uuids + Len(fu.value))
           n == Len(sub.value)
       IN /\ Len(tasks) + n <= MaxTasks
          /\ llm' = For("followup", resp)
          /\ IF fu.threw \/ sub.threw
             THEN /\ Raise(IF fu.threw THEN fu.error ELSE sub.error)
                  /\ uuids' = uuids + Len(fu.value)
                  /\ UNCHANGED <<tasks, tproc, context>>
             ELSE /\ tasks' = tasks \o sub.value
                  /\ tproc' = tproc \o [i \in 1..n |->
                        [pc |-> "idle", round |-> 0, nth |-> 0, value |-> NoSubAgentResult]]
                  /\ uuids' = uuids + Len(fu.value) + n
                  /\ context' = [context EXCEPT !.pending_tasks =
                                   @ \o [i \in 1..n |-> Len(tasks) + i]]
                  /\ pc' = "loop"
                  /\ UNCHANGED error
     ELSE /\ pc' = "loop"
          /\ UNCHANGED <<llm, uuids, tasks, tproc, context, error>>
  /\ UNCHANGED <<query, max_agents, statusCalls, store, plan, results, dispatched,
                 report, result>>
  /\ UNCHANGED agentVars

\* lines 286 and 101: the loop ends, status synthesizing
ExitLoop ==
  /\ pc = "loop"
  /\ ~LoopCondition(context, query)
  /\ \E ok \in BOOLEAN :
       /\ store' = setStatus(store, St("synthesizing", 0), ok)
       /\ AwaitWrite(ok, "synthesize")
  /\ statusCalls' = Append(statusCalls, St("synthesizing", 0))
  /\ llm' = NoCall
  /\ UNCHANGED <<query, max_agents, uuids, tasks, plan, context, results, dispatched,
                 tproc, report, result>>
  /\ UNCHANGED agentVars

\* lines 103 and 112: _synthesizeResults (its completion call rethrows), status citing
SynthesizeResults ==
  /\ pc = "synthesize"
  /\ \/ /\ Raise(Err(LlmErrorMessage))
        /\ UNCHANGED <<report, statusCalls, store>>
     \/ /\ report' = Str(<<"Executive Summary">>)
        /\ \E ok \in BOOLEAN :
             /\ store' = setStatus(store, St("citing", 0), ok)
             /\ AwaitWrite(ok, "cite")
        /\ statusCalls' = Append(statusCalls, St("citing", 0))
  /\ UNCHANGED <<query, max_agents, uuids, tasks, plan, context, results, dispatched,
                 tproc, llm, result>>
  /\ UNCHANGED agentVars

\* lines 114-139: citations, the final result, saveResult, status completed, return
AddCitationsAndReturn ==
  /\ pc = "cite"
  /\ \E cited \in AddCitationsOutcomes(report, FlatSources(results)) :
       LET finalResult == FinalResearchResult(query, cited, results) IN
         \E ok1, ok2 \in BOOLEAN :
           IF WriteThrows(ok1)
           THEN /\ store' = saveResult(store, finalResult, ok1)
                /\ Raise(StoreWriteError)
                /\ UNCHANGED <<result, statusCalls>>
           ELSE /\ store' = setStatus(saveResult(store, finalResult, ok1),
                                      St("completed", 0), ok2)
                /\ statusCalls' = Append(statusCalls, St("completed", 0))
                /\ AwaitWrite(ok2, "returned")
                /\ result' = IF WriteThrows(ok2) THEN result ELSE finalResult
  /\ UNCHANGED <<query, max_agents, uuids, tasks, plan, context, results, dispatched,
                 tproc, llm, report>>
  /\ UNCHANGED agentVars

\* lines 141-154: the catch block
CatchError ==
  /\ pc = "catch"
  /\ \E ok \in BOOLEAN :
       /\ store' = setStatus(store, St("failed", 0), ok)
       /\ IF WriteThrows(ok)
          THEN Raise(StoreWriteError) /\ UNCHANGED result
          ELSE /\ result' = FailedResearchResult(query, error)
               /\ pc' = "returned"
               /\ UNCHANGED error
  /\ statusCalls' = Append(statusCalls, St("failed", 0))
  /\ llm' = NoCall
  /\ UNCHANGED <<query, max_agents, uuids, tasks, plan, context, results, dispatched,
                 tproc, report>>
  /\ UNCHANGED agentVars

Next ==
  \/ SetStatusPlanning
  \/ CreateResearchPlan
  \/ SetStatusExecuting
  \/ StartIteration
  \/ \E r \in 1..Len(tproc) : TaskProgressSaved(r)
  \/ \E r \in 1..Len(tproc) : ExecuteTaskSettles(r)
  \/ \E r \in 1..Len(tproc) : TaskSettled(r)
  \/ PromiseAllResolves
  \/ CheckNeedsMoreResearch
  \/ ExitLoop
  \/ SynthesizeResults
  \/ AddCitationsAndReturn
  \/ CatchError

Spec == Init /\ [][Next]_vars

\* every pending step is eventually taken: each external call returns or fails
FairSpec == Spec /\ WF_vars(Next)

-----------------------------------------------------------------------------
\* Search Subagent: one executeTask call, step by step

\* task.max_searches || 8
maxResultsOf(task) ==
  IF task.max_searches = 0 THEN DefaultTaskMaxSearches ELSE task.max_searches

\* the outcomes of one search-tool invocation: the call throws, the tool
\* reports success = false, or its text lists results with these URLs
UrlSeqs == UNION {[1..n -> 1..MaxUrls] : n \in 0..MaxPerQuery}
SearchOutcomes ==
  {[kind |-> "threw", urls |-> <<>>], [kind |-> "failed", urls |-> <<>>]}
  \cup {[kind |-> "ok", urls |-> us] : us \in UrlSeqs}

\* _parseSearchResponse (structured format): one SearchResult per listed entry;
\* the title tells the query and the position the entry came from
parseSearchResponse(urls, q) ==
  [j \in 1..Len(urls) |->
     [url |-> urls[j], title |-> <<q, j>>, relevance_score |-> ParsedScoreTenths]]

\* the URL test forgotten
IsNewResult_BudgetOnly(all, r, maxResults) == Len(all) < maxResults

\* the budget test forgotten
IsNewResult_UrlOnly(all, r, maxResults) ==
  ~\E k \in 1..Len(all) : all[k].url = r.url

\* line 320: a result is added when no result with its URL is there yet and
\* the budget is not used up
IsNewResult(all, r, maxResults) ==
  /\ ~\E k \in 1..Len(all) : all[k].url = r.url
  /\ Len(all) < maxResults

\* lines 319-323: the results of one query merged into allResults
RECURSIVE MergeResults(_, _, _)
MergeResults(all, new, maxResults) ==
  IF new = <<>> THEN all
  ELSE MergeResults(IF IsNewResult(all, Head(new), maxResults)
                    THEN Append(all, Head(new)) ELSE all,
                    Tail(new), maxResults)

\* whether the hostname of a URL contains .edu, .gov or .org
HasAuthority(u) == u = 1

\* lines 494-501: the fallback filter, every result rescored by its domain
AuthorityFallback(rs) ==
  SelectSeq([k \in 1..Len(rs) |->
               [rs[k] EXCEPT !.relevance_score =
                  IF HasAuthority(rs[k].url) THEN AuthorityScoreTenths
                  ELSE OtherScoreTenths]],
            LAMBDA r : r.relevance_score >= FallbackThresholdTenths)

\* an entry of the evaluations list
Evaluation(idx, score) == [t |-> "obj", index |-> idx, relevance_score |-> score]
Obj == [t |-> "obj"]
NotIterableError == <<"TypeError: ", "evaluations is not iterable">>
NullEntryError == <<"TypeError: ", "Cannot read properties of null (reading 'index')">>

\* the completion outcomes the scoring call is checked against, n candidates given
EvaluationEntries(n) ==
  {Null} \cup {Evaluation(idx, sc) : idx \in (0 - 1)..n,
                                      sc \in {0, DefaultScoreTenths, RelevanceThresholdTenths}}
EvaluationResponses(n) ==
  {LlmFail, LlmText(PlainText), LlmText(JsonText(EmptyObj)),
   LlmText(JsonText([EmptyObj EXCEPT !.evaluations = Obj])),
   LlmText(JsonText([EmptyObj EXCEPT !.evaluations = Str("none")]))}
  \cup {LlmText(JsonText([EmptyObj EXCEPT !.evaluations = Arr(es)])) :
          es \in UNION {[1..k -> EvaluationEntries(n)] : k \in 0..MaxEvaluations}}

\* every evaluated result let through
PassesEvaluation_Always(score) == TRUE

\* line 513: result.relevance_score >= 0.6
PassesEvaluation(score) == score >= RelevanceThresholdTenths

\* lines 507-518: the loop over the evaluations; the score is written into the
\* SearchResult object itself, evaluatedResults holds references (picked)
RECURSIVE ApplyEvaluations(_, _, _)
ApplyEvaluations(es, rs, picked) ==
  IF es = <<>>
  THEN [threw |-> FALSE, error |-> NoError,
        value |-> [k \in 1..Len(picked) |-> rs[picked[k]]]]
  ELSE LET e == Head(es) IN
    IF e.t = "null"
    THEN [threw |-> TRUE, error |-> Err(NullEntryError), value |-> <<>>]
    ELSE IF e.index >= 0 /\ e.index < Len(rs)
    THEN LET score == IF e.relevance_score = 0 THEN DefaultScoreTenths
                      ELSE e.relevance_score
         IN ApplyEvaluations(Tail(es),
                             [rs EXCEPT ![e.index + 1].relevance_score = score],
                             IF PassesEvaluation(score)
                             THEN Append(picked, e.index + 1) ELSE picked)
    ELSE ApplyEvaluations(Tail(es), rs, picked)

\* whether _evaluateResults takes the loop over the evaluations (line 492)
ScoredPath(resp) ==
  LET evaluationResult == think(resp)
  IN ~Truthy(evaluationResult.error) /\ Truthy(evaluationResult.evaluations)

\* _evaluateResults: what it throws or the results it returns
evaluateResults(rs, resp) ==
  LET evaluationResult == think(resp) IN
  IF ~ScoredPath(resp)
  THEN [threw |-> FALSE, error |-> NoError, value |-> AuthorityFallback(rs)]
  ELSE IF evaluationResult.evaluations.t = "str"
  THEN [threw |-> FALSE, error |-> NoError, value |-> <<>>]
  ELSE IF evaluationResult.evaluations.t # "arr"
  THEN [threw |-> TRUE, error |-> Err(NotIterableError), value |-> <<>>]
  ELSE ApplyEvaluations(evaluationResult.evaluations.v, rs, <<>>)

\* a completion text holding a JSON array
ArrayText(v) == [kind |-> "array", obj |-> EmptyObj, arr |-> v]
ExtractedFinding == [finding |-> <<"extracted">>, source_url |-> 0, confidence |-> 8]
\* the completion outcomes the extraction call is checked against
ExtractionResponses ==
  {LlmFail, LlmText(PlainText)}
  \cup {LlmText(ArrayText([k \in 1..n |-> ExtractedFinding])) : n \in 0..FallbackFindings}

\* lines 586-592: findings made of the first three results
FallbackFindingsOf(rs) ==
  [k \in 1..Min(Len(rs), FallbackFindings) |->
     [finding |-> rs[k].title, source_url |-> rs[k].url,
      confidence |-> rs[k].relevance_score]]

NoFindingsSummary == <<"No significant findings were discovered for this research task.">>

\* line 137: every exception of the pipeline rethrown under this prefix
SearchTaskFailed(e) == Err(<<"Search task failed: ">> \o e.message)

\* no conductResearch call is followed: the lead agent's state stays as constructed
LeadIdle ==
  /\ query = [query |-> QueryText, max_iterations |-> 0]
  /\ max_agents = 0
  /\ pc = "start"
  /\ statusCalls = <<>>
  /\ store = [status |-> NoStatus, context |-> NoContext, result |-> NoResearchResult]
  /\ uuids = 0
  /\ tasks = <<>>
  /\ plan = NoPlan
  /\ context = NoContext
  /\ results = <<>>
  /\ dispatched = <<>>
  /\ tproc = <<>>
  /\ llm = NoCall
  /\ report = Absent
  /\ error = NoError
  /\ result = NoResearchResult

SearchInit ==
  /\ LeadIdle
  /\ \E m \in 0..MaxSearchesInput :
       searchAgent = [SearchAgentIdle EXCEPT !.pc = "generate",
                                             !.task = [task_id |-> 1, max_searches |-> m]]
  /\ citationAgent = CitationAgentIdle
  /\ queryRun = QueryRunIdle
  /\ agentRun = AgentRunIdle
  /\ heuristicRun = HeuristicRunIdle
  /\ searchQueue = SearchQueueUnused
  /\ queryGen = QueryGenIdle
  /\ searchRequest = SearchRequestIdle
  /\ orchestration = OrchestrationIdle

\* line 35: _generateSearchQueries returns at most five queries (line 191)
GenerateSearchQueries ==
  /\ searchAgent.pc = "generate"
  /\ \E n \in 0..Min(MaxQueries, QueryLimit) :
       searchAgent' = [searchAgent EXCEPT !.searchQueries = n,
                                          !.pc = IF n = 0 THEN "evaluate" ELSE "search"]
  /\ UNCHANGED searchFrame

\* the loop left at the first search that fails
AfterSearch_AbortOnFailure(q, n, kind) ==
  IF q = n \/ kind # "ok" THEN "evaluate" ELSE "search"

\* lines 324-333: after a search, failed or not, the loop goes on with the next
\* query until the last one
AfterSearch(q, n, kind) == IF q = n THEN "evaluate" ELSE "search"

\* lines 289-301: the loop reaches query i + 1 and awaits the search tool
StartSearch ==
  /\ searchAgent.pc = "search"
  /\ searchAgent' = [searchAgent EXCEPT !.i = @ + 1,
                                        !.started = Append(@, searchAgent.i + 1),
                                        !.pc = "searching"]
  /\ UNCHANGED searchFrame

\* lines 302-334: the awaited search settles; its results are merged, a failure
\* is skipped
PerformSearch ==
  /\ searchAgent.pc = "searching"
  /\ \E out \in SearchOutcomes :
       LET q == searchAgent.i
           new == IF out.kind = "ok" THEN parseSearchResponse(out.urls, q) ELSE <<>>
       IN searchAgent' = [searchAgent EXCEPT
            !.invocations = Append(@, out.kind),
            !.seen = @ \o new,
            !.allResults = MergeResults(@, new, maxResultsOf(searchAgent.task)),
            !.pc = AfterSearch(q, searchAgent.searchQueries, out.kind)]
  /\ UNCHANGED searchFrame

\* lines 337 and 56: allResults.slice(0, maxResults), then _evaluateResults
EvaluateResults ==
  /\ searchAgent.pc = "evaluate"
  /\ LET rs == SubSeq(searchAgent.allResults, 1,
                      Min(Len(searchAgent.allResults), maxResultsOf(searchAgent.task)))
     IN \E resp \in EvaluationResponses(Len(rs)) :
          LET out == evaluateResults(rs, resp) IN
            searchAgent' = [searchAgent EXCEPT
              !.llm = resp,
              !.evaluatedResults = out.value,
              !.error = IF out.threw THEN SearchTaskFailed(out.error) ELSE @,
              !.pc = IF out.threw THEN "threw" ELSE "extract"]
  /\ UNCHANGED searchFrame

\* line 69: _extractFindings
ExtractFindings ==
  /\ searchAgent.pc = "extract"
  /\ IF searchAgent.evaluatedResults = <<>>
     THEN searchAgent' = [searchAgent EXCEPT !.findings = <<>>, !.pc = "summarize"]
     ELSE \E resp \in ExtractionResponses :
       searchAgent' =
         IF resp.call = "fail"
         THEN [searchAgent EXCEPT !.pc = "threw",
                                  !.error = SearchTaskFailed(Err(LlmErrorMessage))]
         ELSE [searchAgent EXCEPT
                 !.findings = IF resp.text.kind = "array" THEN resp.text.arr
                              ELSE FallbackFindingsOf(searchAgent.evaluatedResults),
                 !.pc = "summarize"]
  /\ UNCHANGED searchFrame

\* lines 98-128 and 131-138: _summarizeFindings, then the SubAgentResult is returned
SummarizeFindings ==
  /\ searchAgent.pc = "summarize"
  /\ IF searchAgent.findings = <<>>
     THEN searchAgent' = [searchAgent EXCEPT !.summary = NoFindingsSummary,
                                             !.pc = "returned"]
     ELSE \E ok \in BOOLEAN :
       searchAgent' =
         IF ok THEN [searchAgent EXCEPT !.summary = <<"summary of findings">>,
                                        !.pc = "returned"]
         ELSE [searchAgent EXCEPT !.pc = "threw",
                                  !.error = SearchTaskFailed(Err(LlmErrorMessage))]
  /\ UNCHANGED searchFrame

SearchNext ==
  \/ GenerateSearchQueries
  \/ StartSearch
  \/ PerformSearch
  \/ EvaluateResults
  \/ ExtractFindings
  \/ SummarizeFindings

SearchSpec == SearchInit /\ [][SearchNext]_vars

-----------------------------------------------------------------------------
\* Citation Agent (src/agents/base.ts, class CitationAgent): one addCitations call

\* A report is a sequence of tokens: sentences [s |-> id] of the given text, inline
\* markers [m |-> N] and an appended block (reference list or plain source list).
Sentence(id) == [s |-> id]
Marker(n) == [m |-> n]
Reports == {[i \in 1..ReportSentences |-> Sentence(f[i])] :
              f \in [1..ReportSentences -> 1..ReportSentences]}

\* A source is a SearchResult; its title records its place in the given list
SourceScores == {FallbackThresholdTenths, RelevanceThresholdTenths, 8}
SourceOf(u, sc, i) == [url |-> u, relevance_score |-> sc, title |-> i]
ShortSourceLists ==
  UNION {{[i \in 1..k |-> SourceOf(f[i].u, f[i].sc, i)] :
            f \in [1..k -> [u : 1..MaxUrls, sc : SourceScores]]} : k \in 0..MaxSources}
\* lists longer than the limit of the plain source list: all URLs distinct, and
\* the first URL given twice
LongSourceLists ==
  {[i \in 1..(SourceListLimit + 1) |-> SourceOf(i, 8, i)],
   [i \in 1..(SourceListLimit + 2) |-> SourceOf(IF i = 1 THEN 1 ELSE i - 1, 8, i)]}
SourceLists == ShortSourceLists \cup LongSourceLists

\* a claim object of the completion: its text is a sentence of the report, or a
\* text (0) that does not occur in it
Claim(text, position) == [claim |-> text, position |-> position]
ClaimEntries ==
  {Null} \cup {Claim(c, p) : c \in 0..ReportSentences, p \in 1..ReportSentences}
ClaimsResponses ==
  {LlmFail, LlmText(PlainText), LlmText(JsonText(EmptyObj)),
   LlmText(JsonText([EmptyObj EXCEPT !.claims = Obj])),
   LlmText(JsonText([EmptyObj EXCEPT !.claims = Str("none")]))}
  \cup {LlmText(JsonText([EmptyObj EXCEPT !.claims = Arr(cs)])) :
          cs \in UNION {[1..k -> ClaimEntries] : k \in 0..MaxClaims}}

\* lines 487-498: the sentence holds a percentage, an amount, a year or a phrase
HasClaimIndicator(id) == id = 1
\* report.indexOf(text), counted in tokens; 0 when the text does not occur
IndexOf(rep, text) ==
  IF \E k \in 1..Len(rep) : rep[k] = Sentence(text)
  THEN CHOOSE k \in 1..Len(rep) :
         /\ rep[k] = Sentence(text)
         /\ \A j \in 1..(k - 1) : rep[j] # Sentence(text)
  ELSE 0
\* lines 485-505: the heuristic claims, one per sentence with an indicator
HeuristicClaims(rep) ==
  SelectSeq([i \in 1..Len(rep) |-> Claim(rep[i].s, IndexOf(rep, rep[i].s))],
            LAMBDA c : HasClaimIndicator(c.claim))

\* _identifyClaims, lines 448-509
identifyClaims(rep, resp) ==
  LET r == think(resp) IN
  IF Truthy(r.error) \/ ~Truthy(r.claims)
  THEN Arr(HeuristicClaims(rep))
  ELSE r.claims

\* lines 342-349: claims.slice(0, 3).forEach(claim => claim.claim.slice(0, 50))
LoggingThrows(claims) ==
  \/ claims.t # "arr"
  \/ \E i \in 1..Len(claims.v) : i <= ClaimsLogged /\ claims.v[i] = Null

\* lines 522-524: qualifying sources, highest score first; the sort is stable
RECURSIVE SortByScoreDesc(_)
SortByScoreDesc(ss) ==
  IF ss = <<>> THEN <<>>
  ELSE LET rest == SortByScoreDesc(Tail(ss))
           n == Cardinality({j \in 1..Len(rest) :
                               rest[j].relevance_score > Head(ss).relevance_score})
       IN SubSeq(rest, 1, n) \o <<Head(ss)>> \o SubSeq(rest, n + 1, Len(rest))
qualifiedSources(ss) ==
  SortByScoreDesc(SelectSeq(ss, LAMBDA x : x.relevance_score >= RelevanceThresholdTenths))

\* the matching completion: no usable answer, or an index and a confidence
MatchResponses(nq) ==
  {LlmFail, LlmText(PlainText)}
  \cup {LlmText(JsonText([EmptyObj EXCEPT !.best_match_index = Num(i),
                                          !.confidence = Num(c)])) :
          i \in {-1, 0, 1, nq},
          c \in {MatchConfidenceTenths - 1, MatchConfidenceTenths}}

\* lines 559-564
IsMatch(r, nq) ==
  /\ r.best_match_index.t = "num"
  /\ r.best_match_index.n >= 0
  /\ r.best_match_index.n < nq
  /\ r.confidence.t = "num"
  /\ r.confidence.n >= MatchConfidenceTenths

\* a number consumed by every claim
NextCitationCounter_EveryClaim(counter, matched) == counter + 1

\* line 569: citationCounter++ only where a match is pushed
NextCitationCounter(counter, matched) == IF matched THEN counter + 1 ELSE counter

\* line 591: citationMatches.sort by position, descending, in place and stable
RECURSIVE SortByPositionDesc(_)
SortByPositionDesc(ms) ==
  IF ms = <<>> THEN <<>>
  ELSE LET rest == SortByPositionDesc(Tail(ms))
           n == Cardinality({j \in 1..Len(rest) : rest[j].position > Head(ms).position})
       IN SubSeq(rest, 1, n) \o <<Head(ms)>> \o SubSeq(rest, n + 1, Len(rest))

\* lines 593-604: the marker goes after the first occurrence of the claim text
RECURSIVE insertCitations(_, _)
insertCitations(rep, ms) ==
  IF ms = <<>> THEN rep
  ELSE LET claimStart == IndexOf(rep, Head(ms).claim)
           cited == IF claimStart >= 1
                    THEN SubSeq(rep, 1, claimStart)
                         \o <<Marker(Head(ms).citationNumber)>>
                         \o SubSeq(rep, claimStart + 1, Len(rep))
                    ELSE rep
       IN insertCitations(cited, Tail(ms))

\* a Citation built from a source
CitationOf(id, src) ==
  [id |-> id, url |-> src.url, title |-> src.title, relevance |-> src.relevance_score]

\* lines 618-630: one citation per source URL, the first match met keeps its number
RECURSIVE UniqueBySource(_, _)
UniqueBySource(ms, used) ==
  IF ms = <<>> THEN <<>>
  ELSE IF Head(ms).source.url \in used
       THEN UniqueBySource(Tail(ms), used)
       ELSE <<CitationOf(Head(ms).citationNumber, Head(ms).source)>>
            \o UniqueBySource(Tail(ms), used \cup {Head(ms).source.url})

\* line 633: sorted by id
RECURSIVE SortById(_)
SortById(cs) ==
  IF cs = <<>> THEN <<>>
  ELSE LET rest == SortById(Tail(cs))
           n == Cardinality({j \in 1..Len(rest) : rest[j].id < Head(cs).id})
       IN SubSeq(rest, 1, n) \o <<Head(cs)>> \o SubSeq(rest, n + 1, Len(rest))

\* _generateCitationList, lines 612-634
generateCitationList(ms) == SortById(UniqueBySource(ms, {}))

\* generateBibliography, lines 639-660
generateBibliography(rep, cs) ==
  IF Len(cs) = 0 THEN rep
  ELSE rep \o <<[block |-> "References", ids |-> [i \in 1..Len(cs) |-> cs[i].id]]>>

\* line 669: report.match(/\[\d+\]/g), the numbers in brackets anywhere in the
\* report: the inline markers and the entries of an appended block
BracketedIds(rep) ==
  {rep[k].m : k \in {j \in 1..Len(rep) : "m" \in DOMAIN rep[j]}}
  \cup UNION {{rep[k].ids[i] : i \in 1..Len(rep[k].ids)} :
               k \in {j \in 1..Len(rep) : "block" \in DOMAIN rep[j]}}

\* validateCitations, lines 665-697: the issues found
validateCitations(rep, cs) ==
  {<<"marker without reference", n>> :
     n \in {b \in BracketedIds(rep) : ~\E i \in 1..Len(cs) : cs[i].id = b}}
  \cup {<<"reference not cited", cs[i].id>> :
          i \in {j \in 1..Len(cs) : cs[j].id \notin BracketedIds(rep)}}
  \cup {<<"duplicate URL", cs[i].url>> :
          i \in {j \in 1..Len(cs) : \E h \in 1..(j - 1) : cs[h].url = cs[j].url}}

\* the plain list keeping every source
SourceBibliography_NoDedup(ss) ==
  [i \in 1..(IF Len(ss) < SourceListLimit THEN Len(ss) ELSE SourceListLimit) |->
     CitationOf(i, ss[i])]

\* lines 414-423: first occurrence of each URL, at most 20, numbered from 1
SourceBibliography(ss) ==
  LET firsts == SelectSeq(ss, LAMBDA x :
                    \A j \in 1..Len(ss) : ss[j].url = x.url => j >= x.title)
      n == IF Len(firsts) < SourceListLimit THEN Len(firsts) ELSE SourceListLimit
  IN [i \in 1..n |-> CitationOf(i, firsts[i])]

\* lines 425-441
FallbackReport(rep, cs) ==
  rep \o <<[block |-> "Sources", ids |-> [i \in 1..Len(cs) |-> cs[i].id]]>>

CiteInit ==
  /\ LeadIdle
  /\ searchAgent = SearchAgentIdle
  /\ queryRun = QueryRunIdle
  /\ agentRun = AgentRunIdle
  /\ heuristicRun = HeuristicRunIdle
  /\ searchQueue = SearchQueueUnused
  /\ queryGen = QueryGenIdle
  /\ searchRequest = SearchRequestIdle
  /\ orchestration = OrchestrationIdle
  /\ \E rep \in Reports, ss \in SourceLists :
       citationAgent = [CitationAgentIdle EXCEPT !.pc = "identify",
                                                 !.report = rep, !.sources = ss]

\* lines 340-349: step 1 and the logging of the first claims
IdentifyClaims ==
  /\ citationAgent.pc = "identify"
  /\ \E resp \in ClaimsResponses :
       LET claims == identifyClaims(citationAgent.report, resp) IN
       citationAgent' =
         [citationAgent EXCEPT !.claims = claims,
                               !.pc = IF LoggingThrows(claims) THEN "fallback"
                                      ELSE "match"]
  /\ UNCHANGED citeFrame

\* lines 526-576: one turn of the loop over the claims
MatchClaim ==
  /\ citationAgent.pc = "match"
  /\ citationAgent.k < Len(citationAgent.claims.v)
  /\ LET k == citationAgent.k + 1
         claim == citationAgent.claims.v[k]
         qs == qualifiedSources(citationAgent.sources)
     IN IF claim = Null
        THEN citationAgent' = [citationAgent EXCEPT !.pc = "fallback"]
        ELSE \E resp \in MatchResponses(Len(qs)) :
               LET r == think(resp)
                   matched == IsMatch(r, Len(qs))
               IN citationAgent' =
                    [citationAgent EXCEPT
                       !.k = k,
                       !.matches =
                          IF matched
                          THEN Append(@, [claim |-> claim.claim,
                                          position |-> claim.position,
                                          source |-> qs[r.best_match_index.n + 1],
                                          citationNumber |-> citationAgent.citationCounter,
                                          claimIndex |-> k])
                          ELSE @,
                       !.citationCounter = NextCitationCounter(@, matched)]
  /\ UNCHANGED citeFrame

\* lines 364-403: steps 3 to 5 and the return
InsertAndList ==
  /\ citationAgent.pc = "match"
  /\ citationAgent.k = Len(citationAgent.claims.v)
  /\ LET sortedMatches == SortByPositionDesc(citationAgent.matches)
         citedReport == insertCitations(citationAgent.report, sortedMatches)
         citations == generateCitationList(sortedMatches)
     IN citationAgent' =
          [citationAgent EXCEPT
             !.pc = "returned",
             !.matches = sortedMatches,
             !.result = [report |-> generateBibliography(citedReport, citations),
                         citations |-> citations]]
  /\ UNCHANGED citeFrame

\* lines 405-442: the catch block
CitationFallback ==
  /\ citationAgent.pc = "fallback"
  /\ LET sourceBibliography == SourceBibliography(citationAgent.sources) IN
     citationAgent' =
       [citationAgent EXCEPT
          !.pc = "returned",
          !.fellBack = TRUE,
          !.result = [report |-> FallbackReport(citationAgent.report, sourceBibliography),
                      citations |-> sourceBibliography]]
  /\ UNCHANGED citeFrame

CiteNext ==
  \/ IdentifyClaims
  \/ MatchClaim
  \/ InsertAndList
  \/ CitationFallback

CiteSpec == CiteInit /\ [][CiteNext]_vars

-----------------------------------------------------------------------------
\* The values conductResearch reads from its query (src/unnamed/part_013), followed
\* over the planning prompt and the rounds of the iteration loop only

\* query.max_subagents || 3 in the planning prompt
plannedSubtasks(q) == IF q.max_subagents = 0 THEN DefaultMaxSubagents ELSE q.max_subagents

\* a ResearchQuery as a caller can build it: the two numbers are optional (0 = unset)
\* and of type number
QueryNumbers == (0 - 1)..MaxQueryNumber

QueryInit ==
  /\ LeadIdle
  /\ searchAgent = SearchAgentIdle
  /\ citationAgent = CitationAgentIdle
  /\ agentRun = AgentRunIdle
  /\ heuristicRun = HeuristicRunIdle
  /\ searchQueue = SearchQueueUnused
  /\ queryGen = QueryGenIdle
  /\ searchRequest = SearchRequestIdle
  /\ orchestration = OrchestrationIdle
  /\ \E q \in [max_iterations : QueryNumbers, max_subagents : QueryNumbers] :
       queryRun = [QueryRunIdle EXCEPT !.pc = "plan", !.query = q]

\* _createResearchPlan: the prompt asks for plannedSubtasks(query) subtasks; the
\* plan that comes back holds tasks or none
AskForSubtasks ==
  /\ queryRun.pc = "plan"
  /\ \E pending \in {<<>>, <<1>>} :
       queryRun' = [queryRun EXCEPT !.pc = "loop",
                                    !.planned = plannedSubtasks(queryRun.query),
                                    !.ctx.pending_tasks = pending]
  /\ UNCHANGED queryFrame

\* one round of the while loop of _executeResearchPlan: the pending tasks are
\* executed and removed, and follow-up tasks may be added
ExecuteRound ==
  /\ queryRun.pc = "loop"
  /\ LoopCondition(queryRun.ctx, queryRun.query)
  /\ \E followUps \in {<<>>, <<1>>} :
       queryRun' = [queryRun EXCEPT !.ctx.iteration_count = @ + 1,
                                    !.ctx.pending_tasks = followUps]
  /\ UNCHANGED queryFrame

\* the while condition is false: return results
LeaveLoop ==
  /\ queryRun.pc = "loop"
  /\ ~LoopCondition(queryRun.ctx, queryRun.query)
  /\ queryRun' = [queryRun EXCEPT !.pc = "done"]
  /\ UNCHANGED queryFrame

QueryNext ==
  \/ AskForSubtasks
  \/ ExecuteRound
  \/ LeaveLoop

QuerySpec == QueryInit /\ [][QueryNext]_vars

-----------------------------------------------------------------------------
\* BaseAgent.run (src/agents/base.ts), the tool-use loop of an agent

\* the third message of the loop's return statement
MaxIterationsMessage(n) == <<"Maximum iterations (", n, ") reached.">>
ErrorMessage == <<"I encountered an error while processing your request: ">>
AnswerText == <<"answer">>

\* who calls run: the orchestrator passes no maxIterations (lines 149 and 216 of
\* src/orchestrator.ts), so the parameter takes its default
RunMaxIterations(caller) == RunDefaultMaxIterations

\* generateText: throws, answers without tool calls, or asks for tool calls whose
\* executions succeed or fail
GenerateOutcomes ==
  {[kind |-> "threw", tools |-> <<>>], [kind |-> "text", tools |-> <<>>]}
  \cup {[kind |-> "tools", tools |-> ts] :
          ts \in UNION {[1..k -> BOOLEAN] : k \in 1..MaxToolCalls}}

AgentInit ==
  /\ LeadIdle
  /\ searchAgent = SearchAgentIdle
  /\ citationAgent = CitationAgentIdle
  /\ queryRun = QueryRunIdle
  /\ heuristicRun = HeuristicRunIdle
  /\ searchQueue = SearchQueueUnused
  /\ queryGen = QueryGenIdle
  /\ searchRequest = SearchRequestIdle
  /\ orchestration = OrchestrationIdle
  /\ \E n \in 1..MaxConfigIterations, c \in {"processSubTasksInParallel", "synthesizeResults"} :
       agentRun = [AgentRunIdle EXCEPT !.pc = "loop",
                                       !.config = [max_iterations |-> n],
                                       !.caller = c,
                                       !.maxIterations = RunMaxIterations(c),
                                       !.messages = 2]

\* lines 43-86: one turn of the while loop
RunIteration ==
  /\ agentRun.pc = "loop"
  /\ agentRun.iteration < agentRun.maxIterations
  /\ \E out \in GenerateOutcomes :
       agentRun' =
         [agentRun EXCEPT
            !.iteration = @ + 1,
            !.calls = @ + 1,
            !.toolResults = out.tools,
            !.messages = IF out.kind = "tools" THEN @ + 3 ELSE @,
            !.pc = IF out.kind = "tools" THEN "loop" ELSE "returned",
            !.result = IF out.kind = "threw" THEN ErrorMessage
                       ELSE IF out.kind = "text" THEN AnswerText
                       ELSE @]
  /\ UNCHANGED agentFrame

\* line 89: the loop ran out
ReturnMaxIterations ==
  /\ agentRun.pc = "loop"
  /\ ~(agentRun.iteration < agentRun.maxIterations)
  /\ agentRun' = [agentRun EXCEPT !.pc = "returned",
                                  !.result = MaxIterationsMessage(agentRun.maxIterations)]
  /\ UNCHANGED agentFrame

AgentNext ==
  \/ RunIteration
  \/ ReturnMaxIterations

AgentSpec == AgentInit /\ [][AgentNext]_vars

-----------------------------------------------------------------------------
\* The sufficiency heuristic _needsMoreResearch (src/unnamed/part_013) applied to
\* the results collected so far

\* the sources of one result: n sources with consecutive URLs from base + 1, all
\* with one score
ResultSources(n, base, score) == [i \in 1..n |-> Source(base + i, score)]
CollectedResult(id, ss) ==
  [task_id |-> id, findings |-> <<>>, sources |-> ss, summary |-> <<>>, token_count |-> 0]
\* results of up to MaxResults tasks; two results may bring the same URLs
CollectedResults ==
  UNION {{[i \in 1..k |-> CollectedResult(i, ResultSources(f[i].n, f[i].base, f[i].score))] :
            f \in [1..k -> [n : {0, MinSources \div 2, MinSources},
                            base : {0, MinSources \div 2, MinSources},
                            score : {MinAvgRelevanceTenths - 1, MinAvgRelevanceTenths,
                                     MinAvgRelevanceTenths + 1}]]} :
         k \in 0..MaxResults}

HeuristicInit ==
  /\ LeadIdle
  /\ searchAgent = SearchAgentIdle
  /\ citationAgent = CitationAgentIdle
  /\ queryRun = QueryRunIdle
  /\ agentRun = AgentRunIdle
  /\ searchQueue = SearchQueueUnused
  /\ queryGen = QueryGenIdle
  /\ searchRequest = SearchRequestIdle
  /\ orchestration = OrchestrationIdle
  /\ \E rs \in CollectedResults :
       heuristicRun = [HeuristicRunIdle EXCEPT !.pc = "called", !.results = rs]

\* line 269: await this._needsMoreResearch(context, results)
NeedsMoreResearch ==
  /\ heuristicRun.pc = "called"
  /\ heuristicRun' = [heuristicRun EXCEPT !.pc = "returned",
                                          !.needsMore = needsMoreResearch(heuristicRun.results)]
  /\ UNCHANGED heuristicFrame

HeuristicNext == NeedsMoreResearch

HeuristicSpec == HeuristicInit /\ [][HeuristicNext]_vars

-----------------------------------------------------------------------------
\* The process-wide RequestQueue of the search tool (src/unnamed/part_004), used
\* by the Search Subagent tasks of one round

QueueTasks == 1..MaxQueueTasks
NoItem == [owner |-> 0, ticket |-> 0]
QueueItem(a, t) == [owner |-> a, ticket |-> t]

\* the newest item taken first
NextItem_Last(q) == q[Len(q)]

\* line 258: this.queue.shift()
NextItem(q) == Head(q)
\* the queue without the item taken
Without(q, item) == SelectSeq(q, LAMBDA x : x # item)

\* the rejection of a failed request lost
Settled_DropsFailure(st, item, ok) ==
  IF ok THEN [st.task EXCEPT ![item.owner].pc = "got",
                             ![item.owner].outcomes = Append(@, ok)]
  ELSE st.task

\* a failure rejecting every waiting request as well
Settled_FailAll(st, item, ok) ==
  [a \in QueueTasks |->
     IF a = item.owner \/ (~ok /\ \E i \in 1..Len(st.queue) : st.queue[i].owner = a)
     THEN [st.task[a] EXCEPT !.pc = "got", !.outcomes = Append(@, ok)]
     ELSE st.task[a]]

\* lines 272-277: item.resolve(result) or item.reject(error) settles the promise
\* of the request's own caller
Settled(st, item, ok) ==
  [st.task EXCEPT ![item.owner].pc = "got",
                  ![item.owner].outcomes = Append(@, ok)]

\* lines 252-271 up to the first await: the processor takes the next item and
\* either waits for the minimum interval or calls item.fn() at once
TakeNext(st, wait) ==
  LET item == NextItem(st.queue) IN
  [st EXCEPT !.processing = TRUE,
             !.inflight = item,
             !.queue = Without(st.queue, item),
             !.started = IF wait THEN @ ELSE Append(@, item.ticket),
             !.pc = IF wait THEN "delay" ELSE "running"]

SearchQueueIdle ==
  [pc |-> "idle", queue |-> <<>>, processing |-> FALSE, inflight |-> NoItem,
   tickets |-> 0, requests |-> 0, started |-> <<>>, settled |-> <<>>,
   task |-> [a \in QueueTasks |-> [pc |-> "idle", issued |-> 0, outcomes |-> <<>>]]]

QueueInit ==
  /\ LeadIdle
  /\ searchAgent = SearchAgentIdle
  /\ citationAgent = CitationAgentIdle
  /\ queryRun = QueryRunIdle
  /\ agentRun = AgentRunIdle
  /\ heuristicRun = HeuristicRunIdle
  /\ queryGen = QueryGenIdle
  /\ searchRequest = SearchRequestIdle
  /\ orchestration = OrchestrationIdle
  /\ \E n \in 1..MaxRequests :
       searchQueue = [SearchQueueIdle EXCEPT
                        !.requests = n,
                        !.task = [a \in QueueTasks |-> [@[a] EXCEPT !.pc = "ready"]]]

\* lines 244-249: a task's search reaches requestQueue.enqueue; processQueue
\* starts the processor unless it is running
Enqueue(a) ==
  /\ searchQueue.task[a].pc = "ready"
  /\ searchQueue.task[a].issued < searchQueue.requests
  /\ LET t == searchQueue.tickets + 1
         st == [searchQueue EXCEPT
                  !.tickets = t,
                  !.queue = Append(@, QueueItem(a, t)),
                  !.task[a].pc = "waiting",
                  !.task[a].issued = @ + 1]
     IN \E wait \in BOOLEAN :
          searchQueue' = IF st.processing THEN st ELSE TakeNext(st, wait)
  /\ UNCHANGED queueFrame

\* lines 265-268: the minimum interval has elapsed
DelayElapsed ==
  /\ searchQueue.pc = "delay"
  /\ searchQueue' = [searchQueue EXCEPT
                       !.pc = "running",
                       !.started = Append(@, searchQueue.inflight.ticket)]
  /\ UNCHANGED queueFrame

\* lines 271-280: item.fn() settles, its caller's promise is settled, and the
\* loop takes the next item or stops
RequestSettles ==
  /\ searchQueue.pc = "running"
  /\ \E ok, wait \in BOOLEAN :
       LET st == [searchQueue EXCEPT
                    !.task = Settled(searchQueue, searchQueue.inflight, ok),
                    !.settled = Append(@, searchQueue.inflight.ticket),
                    !.inflight = NoItem]
       IN searchQueue' = IF Len(st.queue) > 0 THEN TakeNext(st, wait)
                         ELSE [st EXCEPT !.processing = FALSE, !.pc = "idle"]
  /\ UNCHANGED queueFrame

\* the task goes on after its search (a failed one is skipped): next query or done
TaskContinues(a) ==
  /\ searchQueue.task[a].pc = "got"
  /\ searchQueue' = [searchQueue EXCEPT !.task[a].pc =
                       IF searchQueue.task[a].issued < searchQueue.requests
                       THEN "ready" ELSE "done"]
  /\ UNCHANGED queueFrame

QueueNext ==
  \/ \E a \in QueueTasks : Enqueue(a)
  \/ DelayElapsed
  \/ RequestSettles
  \/ \E a \in QueueTasks : TaskContinues(a)

QueueSpec == QueueInit /\ [][QueueNext]_vars

\* a timer that was set fires and a request function that was called settles
\* (axios times out after 15 s, part_004 line 640)
FairQueueSpec ==
  QueueSpec /\ WF_vars(DelayElapsed) /\ WF_vars(RequestSettles)

-----------------------------------------------------------------------------
\* Search Subagent, query generation (src/unnamed/part_012): one
\* _generateSearchQueries call. A text is the sequence of its words.

\* the words the objectives and the focus of the tasks are made of
Vocabulary == {"the", "ai", "top", "startup", "market"}
WordLength(w) ==
  CASE w = "ai" -> 2
    [] w \in {"the", "top"} -> 3
    [] w = "find" -> 4
    [] w = "share" -> 5
    [] w \in {"market", "please"} -> 6
    [] OTHER -> 7
Objectives == UNION {[1..n -> Vocabulary] : n \in 0..MaxObjectiveWords}
Focuses == {<<>>, <<"funding">>}

\* text.includes(w): no word of the texts used here holds another one inside
Includes(text, w) == \E i \in 1..Len(text) : text[i] = w
\* s.slice(0, n)
Slice(s, n) == SubSeq(s, 1, Min(n, Len(s)))

\* line 243: the stop words that occur in the texts used here
StopWords == {"the", "find"}

\* _extractKeyTermsFromTask, lines 241-251
extractKeyTermsFromTask(objective, focus) ==
  Slice(SelectSeq(objective \o focus,
                  LAMBDA w : WordLength(w) > 2 /\ w \notin StopWords), 6)

\* _generateDeterministicQueries, lines 200-234
generateDeterministicQueries(objective, keyTerms) ==
  LET dated == IF Len(keyTerms) >= 2
               THEN <<Slice(keyTerms, 4) \o <<"2024", "2025">>>> ELSE <<>>
      authority ==
        IF Len(keyTerms) >= 2
        THEN <<Slice(keyTerms, 3) \o
               (IF Includes(objective, "startup") \/ Includes(objective, "company")
                THEN <<"TechCrunch", "Forbes", "VentureBeat">>
                ELSE IF Includes(objective, "ai")
                     THEN <<"AI", "technology">>
                     ELSE <<"industry", "report">>)>>
        ELSE <<>>
      broad == IF Len(keyTerms) >= 3 THEN <<Slice(keyTerms, 3)>> ELSE <<>>
      rankingTerms == SelectSeq(keyTerms, LAMBDA w : w \notin {"ranking", "top", "best"})
      ranking ==
        IF /\ \/ Includes(objective, "ranking")
              \/ Includes(objective, "top")
              \/ Includes(objective, "best")
           /\ Len(rankingTerms) >= 2
        THEN <<<<"top">> \o Slice(rankingTerms, 2) \o <<"ranking", "list">>>>
        ELSE <<>>
  IN dated \o authority \o broad \o ranking

\* _optimizeQueryForSearch, lines 256-278
optimizeQueryForSearch(q, objective) ==
  LET led == IF Len(q) >= 2 /\ q[1] \in {"please", "find", "identify", "get"}
             THEN Tail(q) ELSE q
      optimized == IF Len(led) >= 2 /\ led[Len(led)] \in {"please", "thanks"}
                   THEN SubSeq(led, 1, Len(led) - 1) ELSE led
      keywords == IF Len(optimized) > 6
                  THEN extractKeyTermsFromTask(optimized, <<>>) ELSE optimized
  IN IF /\ \/ Includes(objective, "top")
           \/ Includes(objective, "best")
           \/ Includes(objective, "recent")
        /\ ~Includes(keywords, "2024")
        /\ ~Includes(keywords, "2025")
     THEN keywords \o <<"2024", "2025">>
     ELSE keywords

\* what the enhancement completion can come to (lines 170-185): think returns an
\* error, an object without analysis, a text without an array, a text whose
\* array does not parse, or an array of query strings
EnhancedCandidates(keyTerms) ==
  {<<>>, <<"market", "share">>, <<"find", "market", "share">>,
   <<"startup", "funding">>, Slice(keyTerms, 3)}
EnhancementOutcomes(keyTerms) ==
  {[kind |-> k, entries |-> <<>>] :
     k \in {"error", "no analysis", "no array", "unparsable"}}
  \cup {[kind |-> "array", entries |-> es] :
          es \in UNION {[1..n -> EnhancedCandidates(keyTerms)] : n \in 0..MaxEnhanced}}

\* lines 172-185: the enhanced queries, empty unless an array was parsed
enhancedQueriesOf(outcome, objective) ==
  IF outcome.kind = "array"
  THEN SelectSeq([i \in 1..Len(outcome.entries) |->
                    optimizeQueryForSearch(outcome.entries[i], objective)],
                 LAMBDA q : Len(q) > 0)
  ELSE <<>>

\* [...new Set(allQueries)]: the first occurrence of each query, in order
RECURSIVE Unique(_)
Unique(qs) ==
  IF qs = <<>> THEN <<>>
  ELSE LET front == Unique(SubSeq(qs, 1, Len(qs) - 1))
           last == qs[Len(qs)]
       IN IF \E i \in 1..Len(front) : front[i] = last
          THEN front ELSE Append(front, last)

\* the slice forgotten
uniqueQueriesOf_NoLimit(allQueries) == Unique(allQueries)

\* line 191
uniqueQueriesOf(allQueries) == Slice(Unique(allQueries), QueryLimit)

GenerateInit ==
  /\ LeadIdle
  /\ searchAgent = SearchAgentIdle
  /\ citationAgent = CitationAgentIdle
  /\ queryRun = QueryRunIdle
  /\ agentRun = AgentRunIdle
  /\ heuristicRun = HeuristicRunIdle
  /\ searchQueue = SearchQueueUnused
  /\ searchRequest = SearchRequestIdle
  /\ orchestration = OrchestrationIdle
  /\ \E o \in Objectives, f \in Focuses :
       queryGen = [QueryGenIdle EXCEPT !.pc = "extract", !.objective = o,
                                       !.search_focus = f]

\* lines 149-154: the key terms and the deterministic queries
ExtractKeyTerms ==
  /\ queryGen.pc = "extract"
  /\ LET keyTerms == extractKeyTermsFromTask(queryGen.objective, queryGen.search_focus) IN
     queryGen' = [queryGen EXCEPT
        !.pc = "enhance",
        !.keyTerms = keyTerms,
        !.deterministicQueries =
           generateDeterministicQueries(queryGen.objective, keyTerms)]
  /\ UNCHANGED generateFrame

\* lines 157-186: the enhancement completion, every failure swallowed
EnhanceQueries ==
  /\ queryGen.pc = "enhance"
  /\ \E outcome \in EnhancementOutcomes(queryGen.keyTerms) :
       queryGen' = [queryGen EXCEPT
          !.pc = "combine",
          !.enhancement = outcome.kind,
          !.enhancedQueries = enhancedQueriesOf(outcome, queryGen.objective)]
  /\ UNCHANGED generateFrame

\* lines 189-194: combine, deduplicate, cut and return
CombineQueries ==
  /\ queryGen.pc = "combine"
  /\ queryGen' = [queryGen EXCEPT
        !.pc = "returned",
        !.uniqueQueries =
           uniqueQueriesOf(queryGen.deterministicQueries \o queryGen.enhancedQueries)]
  /\ UNCHANGED generateFrame

GenerateNext ==
  \/ ExtractKeyTerms
  \/ EnhanceQueries
  \/ CombineQueries

GenerateSpec == GenerateInit /\ [][GenerateNext]_vars

-----------------------------------------------------------------------------
\* Search tool (src/unnamed/part_004) and cache (src/utils/cache.ts): one
\* search request, that is one call of performSearch, the function
\* cacheWithRedis makes of _performSearch

\* line 624 of part_004
MaxRetries == 2

\* the outcomes of one axios.get: a response listing some results, a failure
\* the code retries (HTTP 429, ECONNRESET, ETIMEDOUT), any other failure
HttpOutcomes ==
  {[kind |-> "ok", results |-> n] : n \in 0..MaxUrls}
  \cup {[kind |-> "retryable", results |-> 0], [kind |-> "other", results |-> 0]}

\* the outcomes of redis.get and what line 28-30 makes of the value: no value,
\* a value that parses, a value JSON.parse rejects, a failed command
RedisGetOutcomes ==
  {[kind |-> "miss", results |-> 0], [kind |-> "unparsable", results |-> 0],
   [kind |-> "error", results |-> 0]}
  \cup {[kind |-> "hit", results |-> n] : n \in 0..MaxUrls}

\* fn(...args) is called: _performSearch starts with attempt = 0; fallback
\* tells the call of line 43 from the one of line 35
CallFn(st, fallback) ==
  [st EXCEPT !.pc = "http", !.invocations = @ + 1, !.fallback = fallback,
             !.attempt = 0]

\* the wrapped call returns a value
WrapperReturns(st, value) ==
  [st EXCEPT !.pc = "returned", !.results = value]

\* cache.ts lines 40-44: whatever the try block threw, fn is called; what the
\* call of line 43 throws leaves the wrapper
CatchInWrapper(st) ==
  IF st.fallback THEN [st EXCEPT !.pc = "threw"] ELSE CallFn(st, TRUE)

\* part_004 lines 658-683: what the catch block of _performSearch does with
\* a failed attempt, attempt already incremented
AfterFailedAttempt(st, kind) ==
  IF kind = "retryable" /\ st.attempt < MaxRetries
  THEN [st EXCEPT !.pc = "backoff"]
  ELSE CatchInWrapper(st)

RequestInit ==
  /\ LeadIdle
  /\ searchAgent = SearchAgentIdle
  /\ citationAgent = CitationAgentIdle
  /\ queryRun = QueryRunIdle
  /\ agentRun = AgentRunIdle
  /\ heuristicRun = HeuristicRunIdle
  /\ searchQueue = SearchQueueUnused
  /\ queryGen = QueryGenIdle
  /\ orchestration = OrchestrationIdle
  /\ searchRequest = [SearchRequestIdle EXCEPT !.pc = "get"]

\* cache.ts lines 27-35: the lookup
RedisGet ==
  /\ searchRequest.pc = "get"
  /\ \E out \in RedisGetOutcomes :
       searchRequest' =
         LET st == [searchRequest EXCEPT !.lookup = out.kind] IN
         CASE out.kind = "hit" -> WrapperReturns(st, out.results)
           [] out.kind = "miss" -> CallFn(st, FALSE)
           [] OTHER -> CatchInWrapper(st)
  /\ UNCHANGED requestFrame

\* part_004 lines 626-683: one turn of the while loop of _performSearch
HttpAttempt ==
  /\ searchRequest.pc = "http"
  /\ \E out \in HttpOutcomes :
       searchRequest' =
         LET st == [searchRequest EXCEPT !.http = Append(@, out.kind)] IN
         IF out.kind = "ok"
         THEN IF st.fallback THEN WrapperReturns(st, out.results)
              ELSE [st EXCEPT !.pc = "set", !.results = out.results]
         ELSE AfterFailedAttempt([st EXCEPT !.attempt = @ + 1], out.kind)
  /\ UNCHANGED requestFrame

\* part_004 lines 665-671: the backoff delay is over, the loop continues
BackoffElapsed ==
  /\ searchRequest.pc = "backoff"
  /\ searchRequest' = [searchRequest EXCEPT !.pc = "http"]
  /\ UNCHANGED requestFrame

\* cache.ts lines 38-39: the result is stored, or the command fails
RedisSet ==
  /\ searchRequest.pc = "set"
  /\ \E stored \in BOOLEAN :
       searchRequest' =
         IF stored THEN WrapperReturns(searchRequest, searchRequest.results)
         ELSE CatchInWrapper(searchRequest)
  /\ UNCHANGED requestFrame

RequestNext ==
  \/ RedisGet
  \/ HttpAttempt
  \/ BackoffElapsed
  \/ RedisSet

RequestSpec == RequestInit /\ [][RequestNext]_vars

-----------------------------------------------------------------------------
\* Orchestrator (src/orchestrator.ts): one processQuery call

NoSubTasksMessage == <<"I couldn't break down your question into manageable sub-tasks.">>
AllFailedMessage == <<"I apologize, but all agent tasks failed to produce results.">>
CombinedAnswer(rs) == <<"Here's what I found:", rs>>

\* what the completion calls of one agent.run come to
Completions == {"fails", "answers", "keeps calling tools"}

\* BaseAgent.run, src/agents/base.ts lines 27-94: the text it resolves with; its
\* catch block turns a failed completion into a text, so it never rejects
RunOutcome(completion) ==
  [threw |-> FALSE,
   text |-> CASE completion = "fails" -> ErrorMessage
              [] completion = "answers" -> AnswerText
              [] OTHER -> MaxIterationsMessage(RunDefaultMaxIterations)]

\* lines 147-174: the AgentResult and the progress status of one sub-task
AgentResultOf(out) ==
  IF out.threw
  THEN [response |-> <<>>, success |-> FALSE, status |-> "failed"]
  ELSE [response |-> out.text, success |-> TRUE, status |-> "completed"]

NotRun == [response |-> <<>>, success |-> FALSE, status |-> "running"]

\* lines 181-182
successfulResults(rs) == SelectSeq(rs, LAMBDA r : r.success)

OrchestratorInit ==
  /\ LeadIdle
  /\ searchAgent = SearchAgentIdle
  /\ citationAgent = CitationAgentIdle
  /\ queryRun = QueryRunIdle
  /\ agentRun = AgentRunIdle
  /\ heuristicRun = HeuristicRunIdle
  /\ searchQueue = SearchQueueUnused
  /\ queryGen = QueryGenIdle
  /\ searchRequest = SearchRequestIdle
  /\ orchestration = [OrchestrationIdle EXCEPT !.pc = "generate"]

\* lines 51-55 and 140-146: the valid sub-tasks (the fallback gives one); their
\* callbacks start
GenerateSubTasks ==
  /\ orchestration.pc = "generate"
  /\ \E n \in 0..MaxSubTasks :
       orchestration' =
         IF n = 0
         THEN [orchestration EXCEPT !.pc = "returned", !.finalAnswer = NoSubTasksMessage]
         ELSE [orchestration EXCEPT
                 !.pc = "parallel",
                 !.completion = [i \in 1..n |-> "pending"],
                 !.results = [i \in 1..n |-> NotRun]]
  /\ UNCHANGED orchestratorFrame

\* lines 147-174: the agent.run of one sub-task settles
SubTaskSettles(i) ==
  /\ orchestration.pc = "parallel"
  /\ i \in 1..Len(orchestration.results)
  /\ orchestration.completion[i] = "pending"
  /\ \E c \in Completions :
       orchestration' = [orchestration EXCEPT
          !.completion[i] = c,
          !.results[i] = AgentResultOf(RunOutcome(c))]
  /\ UNCHANGED orchestratorFrame

\* lines 177, 69 and 180-226: Promise.all resolves; synthesis and the return
SynthesizeAnswers ==
  /\ orchestration.pc = "parallel"
  /\ \A i \in 1..Len(orchestration.completion) : orchestration.completion[i] # "pending"
  /\ LET successful == successfulResults(orchestration.results) IN
     IF Len(successful) = 0
     THEN orchestration' = [orchestration EXCEPT !.pc = "returned",
                                                 !.finalAnswer = AllFailedMessage]
     ELSE \E c \in Completions :
            LET out == RunOutcome(c) IN
            orchestration' = [orchestration EXCEPT
               !.pc = "returned",
               !.answers = [i \in 1..Len(successful) |-> successful[i].response],
               !.finalAnswer = IF out.threw
                               THEN CombinedAnswer(Len(successful)) ELSE out.text]
  /\ UNCHANGED orchestratorFrame

OrchestratorNext ==
  \/ GenerateSubTasks
  \/ \E i \in 1..MaxSubTasks : SubTaskSettles(i)
  \/ SynthesizeAnswers

OrchestratorSpec == OrchestratorInit /\ [][OrchestratorNext]_vars

-----------------------------------------------------------------------------
\* Properties

Running(r) == tproc[r].pc \in {"save_running", "executeTask", "save_final"}
LastStatus == statusCalls[Len(statusCalls)]
TaskRefs == 1..Len(tasks)
IsPrefix(s, t) == Len(s) <= Len(t) /\ \A i \in 1..Len(s) : s[i] = t[i]

\* C1: conductResearch returns, after at most max_iterations iteration rounds
\* (5 when unset), a ResearchResult with a non-null report, whatever completion,
\* search and memory-store calls fail.
C1_ReturnsWithinMaxIterations ==
  /\ [](context.iteration_count <=
          (IF query.max_iterations = 0 THEN DefaultMaxIterations
           ELSE query.max_iterations))
  /\ [](pc = "returned" => result.report.t = "str")
  /\ <>(pc = "returned")

\* a run cut short by the iteration bound, with every status write lost
C1_Witness ==
  /\ pc = "returned"
  /\ context.iteration_count = query.max_iterations
  /\ Len(context.pending_tasks) > 0
  /\ store.status = NoStatus

\* C2: conductResearch never rejects; an exception of planning, execution,
\* synthesis or citation is caught once, status failed is written, and the
\* result returned carries the failure message with the error text.
C2_FailureIsCaughtAndReported ==
  /\ pc # "rejected"
  /\ (pc = "catch" => error # NoError)
  /\ (pc = "returned" /\ error # NoError =>
        /\ LastStatus = St("failed", 0)
        /\ Cardinality({i \in 1..Len(statusCalls) : statusCalls[i] = St("failed", 0)}) = 1
        /\ result.report = Str(<<"Research failed: ">> \o error.message)
        /\ result.citations = <<>>
        /\ result.sources_used = <<>>)

\* a synthesis failure after a round of execution, reported in the result
C2_Witness ==
  /\ pc = "returned"
  /\ error = Err(LlmErrorMessage)
  /\ Len(results) > 0
  /\ result.report = Str(<<"Research failed: ">> \o LlmErrorMessage)

\* the full status sequence of a run with k iteration rounds
ExpectedStatuses(k) ==
  <<St("planning", 0), St("executing", 0)>>
  \o [i \in 1..k |-> St("executing_iteration", i)]
  \o <<St("synthesizing", 0), St("citing", 0), St("completed", 0)>>

\* C3: the statuses written form a prefix of planning, executing,
\* executing_iteration_1..k, synthesizing, citing, completed, optionally cut
\* short by one failed; nothing follows completed or failed.
C3_StatusSequence ==
  \E k \in 0..context.iteration_count :
    \/ IsPrefix(statusCalls, ExpectedStatuses(k))
    \/ /\ Len(statusCalls) > 0
       /\ LastStatus = St("failed", 0)
       /\ IsPrefix(SubSeq(statusCalls, 1, Len(statusCalls) - 1), ExpectedStatuses(k))
       /\ Len(statusCalls) - 1 < Len(ExpectedStatuses(k))

\* a completed run of two iteration rounds
C3_Witness ==
  /\ pc = "returned"
  /\ statusCalls = ExpectedStatuses(2)

\* C4: while a task dispatched in round k has not settled, no result of round k
\* is recorded in the context and no task of a later round has been started.
C4_JoinBarrier ==
  \A r \in TaskRefs : Running(r) =>
    /\ \A r2 \in TaskRefs : tproc[r2].round <= tproc[r].round
    /\ \A r2 \in TaskRefs : tproc[r2].round = tproc[r].round =>
         /\ \A i \in 1..Len(context.completed_tasks) :
              context.completed_tasks[i].task_id # tasks[r2].task_id
         /\ \A i \in 1..Len(results) : results[i].task_id # tasks[r2].task_id

\* one task of the round has settled, the other still runs, the lead waits
C4_Witness ==
  \E r1, r2 \in TaskRefs :
    /\ tproc[r1].pc = "settled" /\ tproc[r2].pc = "executeTask"
    /\ tproc[r1].round = tproc[r2].round
    /\ pc = "await_all"

\* C5: a task whose executeTask throws yields a result with its own task_id,
\* no findings, no sources and the error message in the summary; the other
\* tasks of the round keep their results and the research goes on.
C5_TaskFailureIsIsolated ==
  /\ \A r \in TaskRefs : tproc[r].pc \in {"save_final", "settled"} =>
       /\ tasks[r].status \in {"completed", "failed"}
       /\ tasks[r].status = "failed" =>
            tproc[r].value = [task_id |-> tasks[r].task_id, findings |-> <<>>,
                              sources |-> <<>>,
                              summary |-> <<"Task failed: ">> \o ExecuteTaskError.message,
                              token_count |-> 0]
       /\ tasks[r].status = "completed" =>
            /\ tproc[r].value.task_id = tasks[r].task_id
            /\ tproc[r].value.sources = TaskSources(tasks[r])
            /\ tproc[r].value.findings # <<>>
       /\ (tproc[r].pc = "settled" /\ pc # "await_all") =>
            \E i \in 1..Len(context.completed_tasks) :
              context.completed_tasks[i] = tproc[r].value
  /\ error # ExecuteTaskError
  /\ (pc = "catch" => Len(error.message) > 0 /\ error.message[1] # "Task failed: ")

\* a round joined with one failed and one successful task; the research goes on
C5_Witness ==
  \E r1, r2 \in TaskRefs :
    /\ tproc[r1].round = tproc[r2].round
    /\ tasks[r1].status = "failed" /\ tasks[r2].status = "completed"
    /\ pc = "needs_more"
    /\ Len(FlatSources(context.completed_tasks)) > 0

\* C6: at most max_agents (3 when unset) Search Subagent tasks run at a time.
C6_ConcurrencyCap ==
  Cardinality({r \in TaskRefs : Running(r)}) <=
    (IF max_agents = 0 THEN DefaultMaxConcurrent ELSE max_agents)

\* more tasks pending than the cap allows, the cap's worth of them running
C6_Witness ==
  /\ max_agents > 0
  /\ Len(context.pending_tasks) > max_agents
  /\ Cardinality({r \in TaskRefs : Running(r)}) = max_agents

\* how often a task_id occurs in pending_tasks and completed_tasks of a context
Occurrences(ctx, id) ==
  Cardinality({i \in 1..Len(ctx.pending_tasks) : tasks[ctx.pending_tasks[i]].task_id = id})
  + Cardinality({i \in 1..Len(ctx.completed_tasks) : ctx.completed_tasks[i].task_id = id})

\* C7: in the context, and in every context handed to saveContext, each task_id
\* created for the session (plan subtasks and follow-up tasks) occurs in exactly
\* one of pending_tasks and completed_tasks, once.
C7_PendingCompletedPartition ==
  /\ \A r \in TaskRefs : Occurrences(context, tasks[r].task_id) = 1
  /\ \A r \in TaskRefs : Occurrences(store.context, tasks[r].task_id) <= 1

\* a round is over: some tasks completed, follow-up tasks pending
C7_Witness ==
  /\ pc = "loop"
  /\ Len(context.completed_tasks) > 0
  /\ Len(context.pending_tasks) > 0
  /\ Len(tasks) > Len(plan.subtasks)
  /\ store.context = context

\* C8: no two tasks of the session share a task_id.
C8_TaskIdsUnique ==
  \A r1, r2 \in TaskRefs : r1 # r2 => tasks[r1].task_id # tasks[r2].task_id

\* plan subtasks and two follow-up tasks made of one follow-up entry
C8_Witness ==
  /\ Len(plan.subtasks) > 0
  /\ Len(tasks) >= Len(plan.subtasks) + 2
  /\ llm.step = "followup"
  /\ llm.resp.text.obj.followup_tasks.t = "arr"
  /\ Len(llm.resp.text.obj.followup_tasks.v) = 1

\* planning texts from which no plan with subtasks can be parsed: no JSON
\* object in it, or a JSON object without a subtasks value
UnparsablePlanning ==
  {LlmText(PlainText), LlmText(BadJsonText), LlmText(JsonText(EmptyObj)),
   LlmText(JsonText([EmptyObj EXCEPT !.plan = Str("nested")]))}

C10_MalformedOutputNeverFails ==
  ~(pc = "catch" /\ llm.step \in {"planning", "followup"} /\ llm.resp.call = "ok")

\* C11: the results of a round are appended to the result list and to
\* completed_tasks in the order their tasks had in pending_tasks (the order of
\* dispatch), whatever the order in which the subagents finished.
C11_ResultsInDispatchOrder ==
  /\ Len(results) <= Len(tasks)
  /\ \A i \in 1..Len(results) : results[i].task_id = tasks[i].task_id
  /\ context.completed_tasks = results

\* two tasks of one round recorded, the later dispatched having finished first
C11_Witness ==
  /\ pc = "needs_more"
  /\ \E r1, r2 \in 1..Len(results) :
       /\ r1 < r2
       /\ tproc[r1].round = tproc[r2].round
       /\ tproc[r2].nth < tproc[r1].nth

\* C12: a failing memory-store write (status, context, task progress, result)
\* is swallowed: it raises nothing in conductResearch or in a task callback, and
\* the run goes through the same steps to the same ResearchResult, which is made
\* of the query, the report and the results alone, whatever the store holds.
C12_StoreFailuresSwallowed ==
  /\ error # StoreWriteError
  /\ pc # "rejected"
  /\ \A r \in TaskRefs : tproc[r].pc # "rejected"
  /\ (pc = "returned" /\ error = NoError) =>
        /\ statusCalls = ExpectedStatuses(context.iteration_count)
        /\ \E cited \in AddCitationsOutcomes(report, FlatSources(results)) :
             result = FinalResearchResult(query, cited, results)
  /\ (pc = "returned" /\ error # NoError) =>
        result = FailedResearchResult(query, error)

\* a run with a round of execution returned its result with every write lost
C12_Witness ==
  /\ pc = "returned"
  /\ error = NoError
  /\ Len(results) > 0
  /\ store = [status |-> NoStatus, context |-> NoContext, result |-> NoResearchResult]

\* the score an evaluation gives: evaluation.relevance_score || 0.5
EffectiveScore(e) ==
  IF e.relevance_score = 0 THEN DefaultScoreTenths ELSE e.relevance_score

\* the evaluations of the scoring completion that name a candidate (0-based c)
EvaluationsNaming(c) ==
  LET es == think(searchAgent.llm).evaluations.v
  IN {k \in 1..Len(es) : es[k].index = c}

\* C13: when every search invocation of a task fails, executeTask returns
\* (does not throw) a result without findings whose summary says that no
\* significant findings were discovered.
C13_AllSearchesFailNoThrow ==
  (/\ searchAgent.pc \in {"returned", "threw"}
   /\ searchAgent.searchQueries > 0
   /\ \A k \in 1..Len(searchAgent.invocations) :
        searchAgent.invocations[k] \in {"threw", "failed"})
  => /\ searchAgent.pc = "returned"
     /\ searchAgent.findings = <<>>
     /\ searchAgent.summary = NoFindingsSummary

\* C14 as stated: the sources returned hold no result scored below 0.6, hold
\* every candidate that was scored at least 0.6, and are left unchanged by
\* filtering them again with the same threshold.
C14_SourcesAtLeastThreshold ==
  searchAgent.pc = "returned" =>
    LET cands == searchAgent.allResults
        sources == searchAgent.evaluatedResults
        es == think(searchAgent.llm).evaluations
        scoredHigh(c) ==
          IF ~ScoredPath(searchAgent.llm) THEN HasAuthority(cands[c].url)
          ELSE /\ es.t = "arr"
               /\ \E k \in EvaluationsNaming(c - 1) :
                    EffectiveScore(es.v[k]) >= RelevanceThresholdTenths
    IN /\ \A k \in 1..Len(sources) :
            sources[k].relevance_score >= RelevanceThresholdTenths
       /\ \A c \in 1..Len(cands) : scoredHigh(c) =>
            \E k \in 1..Len(sources) : sources[k].url = cands[c].url
       /\ SelectSeq(sources, LAMBDA r :
             r.relevance_score >= RelevanceThresholdTenths) = sources

\* C14 (amended): on the scored path the sources are the candidates to which an
\* evaluation gave at least 0.6, once per such evaluation and carrying the last
\* score given to them, so that with every candidate evaluated at most once no
\* source is below 0.6 and filtering again changes nothing; when the scoring
\* call fails or returns no evaluations, every candidate is returned, rescored
\* 0.7 (authoritative domain) or 0.5.
C14_SourcesByEvaluationPath ==
  searchAgent.pc = "returned" =>
    LET cands == searchAgent.allResults
        sources == searchAgent.evaluatedResults
        evaluationResult == think(searchAgent.llm)
    IN IF ~ScoredPath(searchAgent.llm)
       THEN /\ Len(sources) = Len(cands)
            /\ \A k \in 1..Len(cands) :
                 /\ sources[k].url = cands[k].url
                 /\ sources[k].relevance_score =
                      (IF HasAuthority(cands[k].url) THEN AuthorityScoreTenths
                       ELSE OtherScoreTenths)
       ELSE IF evaluationResult.evaluations.t # "arr"
       THEN sources = <<>>
       ELSE LET es == evaluationResult.evaluations.v IN
            /\ \A k \in 1..Len(sources) :
                 \E c \in 1..Len(cands) : sources[k].url = cands[c].url
            /\ \A c \in 1..Len(cands) :
                 /\ Cardinality({k \in 1..Len(sources) : sources[k].url = cands[c].url})
                    = Cardinality({k \in EvaluationsNaming(c - 1) :
                                     EffectiveScore(es[k]) >= RelevanceThresholdTenths})
                 /\ \A k \in 1..Len(sources) : sources[k].url = cands[c].url =>
                      \E m \in EvaluationsNaming(c - 1) :
                        /\ \A m2 \in EvaluationsNaming(c - 1) : m2 <= m
                        /\ sources[k].relevance_score = EffectiveScore(es[m])
            /\ (\A c \in 1..Len(cands) : Cardinality(EvaluationsNaming(c - 1)) <= 1) =>
                 /\ \A k \in 1..Len(sources) :
                      sources[k].relevance_score >= RelevanceThresholdTenths
                 /\ SelectSeq(sources, LAMBDA r :
                       r.relevance_score >= RelevanceThresholdTenths) = sources

\* two candidates scored, one at the threshold and returned, one below and dropped
C14_Witness ==
  /\ searchAgent.pc = "returned"
  /\ ScoredPath(searchAgent.llm)
  /\ Len(searchAgent.allResults) = 2
  /\ Len(searchAgent.evaluatedResults) = 1
  /\ Cardinality(EvaluationsNaming(0)) = 1
  /\ Cardinality(EvaluationsNaming(1)) = 1

\* C15: the merged results of a task's queries hold no URL twice, and the
\* result kept for a URL is the first one seen with it, in query order.
C15_FirstSeenPerUrl ==
  LET all == searchAgent.allResults
      seen == searchAgent.seen
  IN /\ \A a, b \in 1..Len(all) : a # b => all[a].url # all[b].url
     /\ \A a \in 1..Len(all) :
          \E m \in 1..Len(seen) :
            /\ seen[m].url = all[a].url
            /\ \A m2 \in 1..(m - 1) : seen[m2].url # all[a].url
            /\ seen[m].title = all[a].title

\* the second query returned a URL the first had returned, under another title
C15_Witness ==
  /\ searchAgent.pc = "evaluate"
  /\ \E m1, m2 \in 1..Len(searchAgent.seen) :
       /\ searchAgent.seen[m1].url = searchAgent.seen[m2].url
       /\ searchAgent.seen[m1].title[1] = 1
       /\ searchAgent.seen[m2].title[1] = 2
       /\ \E a \in 1..Len(searchAgent.allResults) :
            searchAgent.allResults[a] = searchAgent.seen[m1]

-----------------------------------------------------------------------------
\* Citation Agent properties (CiteSpec)

\* the inline markers of a report, in text order
MarkersOf(rep) == SelectSeq(rep, LAMBDA t : "m" \in DOMAIN t)
\* the addCitations call has returned from its try block
CitedReturn == citationAgent.pc = "returned" /\ ~citationAgent.fellBack

\* C16: within one addCitations call the citation numbers are 1, 2, 3, ... given in
\* claim order to the matched claims only: a later matched claim has a greater
\* number, no number is given twice, and an unmatched claim consumes no number.
C16_NumbersFollowMatchedClaims ==
  LET ms == citationAgent.matches IN
  /\ {ms[i].citationNumber : i \in 1..Len(ms)} = 1..Len(ms)
  /\ citationAgent.citationCounter = Len(ms) + 1
  /\ \A i, j \in 1..Len(ms) :
       /\ ms[i].claimIndex < ms[j].claimIndex
            <=> ms[i].citationNumber < ms[j].citationNumber
       /\ ms[i].citationNumber = ms[j].citationNumber => i = j
  /\ \A i \in 1..Len(ms) :
       ms[i].citationNumber
         = Cardinality({j \in 1..Len(ms) : ms[j].claimIndex <= ms[i].claimIndex})

\* two claims, the first unmatched: the second receives number 1
C16_Witness ==
  /\ CitedReturn
  /\ Len(citationAgent.claims.v) = 2
  /\ Len(citationAgent.matches) = 1
  /\ citationAgent.matches[1].claimIndex = 2
  /\ citationAgent.matches[1].citationNumber = 1

\* C17: when m of the n identified claims are matched, the returned citations list
\* has exactly m entries and the returned report holds exactly m markers, one for
\* each N in 1..m, each exactly once.
C17_OneEntryAndMarkerPerMatch ==
  CitedReturn =>
    LET m == Len(citationAgent.matches)
        markers == MarkersOf(citationAgent.result.report)
    IN /\ Len(citationAgent.result.citations) = m
       /\ Len(markers) = m
       /\ \A n \in 1..m :
            Cardinality({i \in 1..Len(markers) : markers[i].m = n}) = 1

\* C18: addCitations never throws; when a step throws it returns the original,
\* unmarked report with a plain source list appended, and as citations at most 20
\* of the given sources, in the given order, with no URL repeated.
C18_FallbackPlainSourceList ==
  /\ citationAgent.pc \in {"idle", "identify", "match", "fallback", "returned"}
  /\ (citationAgent.pc = "returned" /\ citationAgent.fellBack) =>
       LET cs == citationAgent.result.citations
           ss == citationAgent.sources
           rep == citationAgent.result.report
           n == Len(citationAgent.report)
       IN /\ Len(rep) = n + 1
          /\ SubSeq(rep, 1, n) = citationAgent.report
          /\ MarkersOf(rep) = <<>>
          /\ rep[n + 1].block = "Sources"
          /\ Len(cs) <= SourceListLimit
          /\ \A i, j \in 1..Len(cs) : cs[i].url = cs[j].url => i = j
          /\ \A i \in 1..Len(cs) :
               /\ cs[i].title \in 1..Len(ss)
               /\ ss[cs[i].title].url = cs[i].url
               /\ ss[cs[i].title].relevance_score = cs[i].relevance
          /\ \A i, j \in 1..Len(cs) : i < j => cs[i].title < cs[j].title

\* the catch block ran on a list of more than 20 sources in which a URL repeats
C18_Witness ==
  /\ citationAgent.pc = "returned"
  /\ citationAgent.fellBack
  /\ Len(citationAgent.sources) = SourceListLimit + 2
  /\ Len(citationAgent.result.citations) = SourceListLimit
  /\ citationAgent.result.citations[2].title = 3

-----------------------------------------------------------------------------
\* Query numbers (QuerySpec) and the tool-use loop (AgentSpec)

\* C19: the max_iterations value bounding the iteration loop lies in [1,20] (5 when
\* unset), the max_subagents value used for planning lies in [1,10] (3 when unset),
\* and no query, whatever numbers it carries, causes more than 20 rounds.
C19_QueryNumbersWithinBounds ==
  queryRun.pc \in {"loop", "done"} =>
    /\ maxIterations(queryRun.query) \in QueryMinIterations..QueryMaxIterations
    /\ (queryRun.query.max_iterations = 0 =>
          maxIterations(queryRun.query) = DefaultMaxIterations)
    /\ queryRun.planned \in QueryMinSubagents..QueryMaxSubagents
    /\ (queryRun.query.max_subagents = 0 => queryRun.planned = DefaultMaxSubagents)
    /\ queryRun.ctx.iteration_count <= QueryMaxIterations

\* C20: run performs at most config.agent.max_iterations completion calls and then
\* returns the maximum-iterations message instead of looping further.
C20_AtMostConfiguredCompletions ==
  agentRun.pc # "idle" =>
    /\ agentRun.calls <= agentRun.config.max_iterations
    /\ (agentRun.pc = "loop" /\ agentRun.calls = agentRun.config.max_iterations
          => ~(agentRun.iteration < agentRun.maxIterations))
    /\ (agentRun.pc = "returned" /\ agentRun.result \notin {ErrorMessage, AnswerText}
          => agentRun.result = MaxIterationsMessage(agentRun.config.max_iterations))

-----------------------------------------------------------------------------
\* Follow-up rounds of the lead agent (Spec)

\* C21: after a round, follow-up tasks are requested from the completion client
\* and appended only if the sufficiency heuristic reports insufficient evidence
\* and iteration budget remains (iteration_count < max_iterations); in the last
\* permitted round no follow-up task is created.
C21_FollowupsOnlyWithBudget ==
  llm.step = "followup" =>
    /\ needsMoreResearch(results)
    /\ context.iteration_count < maxIterations(query)

-----------------------------------------------------------------------------
\* Sufficiency heuristic (HeuristicSpec)

\* the average relevance_score of the sources is below 0.7
AverageBelow(ss) == Len(ss) > 0 /\ SumRelevance(ss) < MinAvgRelevanceTenths * Len(ss)

\* C22 as stated: evidence is judged insufficient exactly when the number of
\* distinct URLs collected over all rounds is below 8, or the average
\* relevance_score over all collected sources is below 0.7.
C22_InsufficientByDistinctSources ==
  heuristicRun.pc = "returned" =>
    LET all == FlatSources(heuristicRun.results) IN
    heuristicRun.needsMore
      <=> (Cardinality(UrlsOf(all)) < MinSources \/ AverageBelow(all))

\* C22 amended: evidence is judged insufficient exactly when the number of
\* collected sources, a URL counted once for every result that brings it, is
\* below 8, or the average relevance_score over all collected sources is below 0.7.
C22_InsufficientBySourceCount ==
  heuristicRun.pc = "returned" =>
    LET all == FlatSources(heuristicRun.results) IN
    heuristicRun.needsMore <=> (Len(all) < MinSources \/ AverageBelow(all))

\* two results bring the same four URLs twice: eight sources, four distinct, judged
\* sufficient
C22_Witness ==
  /\ heuristicRun.pc = "returned"
  /\ Len(heuristicRun.results) = 2
  /\ Len(FlatSources(heuristicRun.results)) = MinSources
  /\ Cardinality(UrlsOf(FlatSources(heuristicRun.results))) < MinSources
  /\ ~AverageBelow(FlatSources(heuristicRun.results))
  /\ ~heuristicRun.needsMore

-----------------------------------------------------------------------------
\* Plan subtasks over the rounds (Spec)

\* the status synthesizing has just been set
EnteredSynthesizing ==
  Len(statusCalls) > 0 /\ LastStatus = St("synthesizing", 0)
\* a SubAgentResult with the task's task_id is in completed_tasks
Executed(r) ==
  \E i \in 1..Len(context.completed_tasks) :
     context.completed_tasks[i].task_id = tasks[r].task_id
IsPending(r) ==
  \E i \in 1..Len(context.pending_tasks) : context.pending_tasks[i] = r
PlanRefs == {plan.subtasks[i] : i \in 1..Len(plan.subtasks)}

\* C23 as stated: when conductResearch enters the synthesizing state every
\* subtask of the plan has been executed and none is left in pending_tasks.
C23_PlanExecutedBeforeSynthesis ==
  EnteredSynthesizing => \A r \in PlanRefs : Executed(r) /\ ~IsPending(r)

\* C23 amended: when conductResearch enters the synthesizing state every subtask
\* of the plan has been executed or is still in pending_tasks, and one is still
\* pending only if iteration_count is no longer below max_iterations.
C23_PlanExecutedOrBudgetSpent ==
  EnteredSynthesizing =>
    \A r \in PlanRefs :
      \/ Executed(r) /\ ~IsPending(r)
      \/ /\ IsPending(r) /\ ~Executed(r)
         /\ context.iteration_count >= maxIterations(query)

\* the only permitted round ran one of two planned subtasks
C23_Witness ==
  /\ EnteredSynthesizing
  /\ Len(plan.subtasks) = 2
  /\ Executed(plan.subtasks[1])
  /\ IsPending(plan.subtasks[2])
  /\ context.iteration_count = 1

\* the task's callback starts: the task is handed to a Search Subagent
Dispatch(r) ==
  /\ r <= Len(tproc)
  /\ tproc[r].pc # "save_running"
  /\ tproc'[r].pc = "save_running"

\* C24: each task_id is dispatched to a Search Subagent at most once: a task
\* selected in a round, whether it succeeded or failed, is removed from
\* pending_tasks and never executed again.
C24_DispatchedAtMostOnce ==
  /\ [][\A r \in TaskRefs : Dispatch(r) => tproc[r].pc = "idle"]_vars
  /\ [](pc \in {"needs_more", "loop"} =>
          \A r \in TaskRefs : tproc[r].pc = "settled" => ~IsPending(r) /\ Executed(r))

\* a second round starts while a task that failed in the first one stays out of it
C24_Witness ==
  /\ pc = "await_all"
  /\ context.iteration_count = 2
  /\ \E r \in TaskRefs :
       /\ tasks[r].status = "failed"
       /\ tproc[r].pc = "settled"
       /\ tproc[r].round = 1
       /\ ~IsPending(r)
  /\ \E r \in TaskRefs : tproc[r].round = 2

-----------------------------------------------------------------------------
\* Failure handling of the Search Subagent stages (SearchSpec)

\* executeTask threw because a completion-client call failed
ThrewOnCompletionFailure ==
  /\ searchAgent.pc = "threw"
  /\ searchAgent.error = SearchTaskFailed(Err(LlmErrorMessage))

\* C25: if the completion-client call of a stage of executeTask fails, the stage
\* takes its fallback and executeTask still returns a SubAgentResult: it never
\* throws for that reason, and a failed scoring call leaves the candidates
\* rescored by the fallback.
C25_CompletionFailureTakesFallback ==
  /\ ~ThrewOnCompletionFailure
  /\ (searchAgent.llm = LlmFail /\ searchAgent.pc # "evaluate") =>
       \A i \in 1..Len(searchAgent.evaluatedResults) :
         searchAgent.evaluatedResults[i].relevance_score
           \in {AuthorityScoreTenths, OtherScoreTenths}

\* the scoring completion failed or holds no list of evaluations
UnusableEvaluations(resp) ==
  \/ Truthy(think(resp).error)
  \/ think(resp).evaluations.t # "arr"
\* the candidates handed to _evaluateResults
Candidates ==
  SubSeq(searchAgent.allResults, 1,
         Min(Len(searchAgent.allResults), maxResultsOf(searchAgent.task)))

\* C26: if the relevance-scoring call fails or returns a structure that cannot
\* be used as a list of evaluations, every candidate is rescored by domain
\* authority (0.7 or 0.5), all candidates scoring at least 0.5 are kept, and
\* executeTask does not throw for that reason.
C26_UnusableScoringTakesAuthorityFallback ==
  (searchAgent.pc \in {"extract", "threw"} /\ searchAgent.findings = <<>>
     /\ ~ThrewOnCompletionFailure /\ UnusableEvaluations(searchAgent.llm)) =>
    /\ searchAgent.pc # "threw"
    /\ searchAgent.evaluatedResults = AuthorityFallback(Candidates)

-----------------------------------------------------------------------------
\* The returned ResearchResult and the plan (Spec)

\* C27: every ResearchResult returned by conductResearch, on the completed and
\* on the failed path, has been written to the store under result:<research_id>
\* before conductResearch returns (a write the store lost leaves the key empty).
C27_ReturnedResultIsStored ==
  pc = "returned" =>
    \/ store.result = result
    \/ /\ LastStatus = St("completed", 0)
       /\ store.result = NoResearchResult

\* the plan has been created
PlanCreated == plan # NoPlan

\* C28 as stated: the ResearchPlan, including every field of its subtasks, is
\* never modified after _createResearchPlan returns.
C28_PlanNeverModified ==
  [][PlanCreated =>
       /\ plan' = plan
       /\ \A r \in PlanRefs : tasks'[r] = tasks[r]]_vars

\* C28 amended: after _createResearchPlan returns, the plan's strategy and the
\* sequence of its subtasks are never modified, and executing tasks changes no
\* field of an element of plan.subtasks other than its status.
C28_PlanModifiedInStatusOnly ==
  [][PlanCreated =>
       /\ plan' = plan
       /\ \A r \in PlanRefs : tasks'[r] = [tasks[r] EXCEPT !.status = tasks'[r].status]]_vars

\* a planned subtask has run to completion and follow-up tasks exist beside the plan
C28_Witness ==
  /\ PlanCreated
  /\ Len(plan.subtasks) > 0
  /\ tasks[plan.subtasks[1]].status = "completed"
  /\ Len(tasks) > Len(plan.subtasks)

-----------------------------------------------------------------------------
\* Concurrent Search Subagent tasks and the shared request queue (QueueSpec)

\* the requests issued and not yet settled: waiting in the queue or in flight
Unsettled ==
  {searchQueue.queue[i] : i \in 1..Len(searchQueue.queue)}
    \cup (IF searchQueue.inflight = NoItem THEN {} ELSE {searchQueue.inflight})
\* the lead agent's context is as the lead agent left it
ContextUntouched == context = NoContext

LeftSearchLoop ==
  searchAgent.pc \in {"evaluate", "extract", "summarize", "returned", "threw"}

\* C30: within one executeTask the searches are issued one at a time in query
\* order: query i + 1 is started only after the search for query i has
\* settled, and a failed search is skipped, the remaining ones still being run
C30_SearchesSequentialFailuresSkipped ==
  /\ \A k \in 1..Len(searchAgent.started) : searchAgent.started[k] = k
  /\ Len(searchAgent.started) - Len(searchAgent.invocations) =
       (IF searchAgent.pc = "searching" THEN 1 ELSE 0)
  /\ LeftSearchLoop => Len(searchAgent.invocations) = searchAgent.searchQueries

\* a search that threw was followed by a successful one whose results were kept
C30_Witness ==
  /\ searchAgent.pc = "returned"
  /\ Len(searchAgent.invocations) = 2
  /\ searchAgent.invocations[1] = "threw"
  /\ searchAgent.invocations[2] = "ok"
  /\ searchAgent.allResults # <<>>

\* the accumulated unique results have reached the task's budget
BudgetReached == Len(searchAgent.allResults) >= maxResultsOf(searchAgent.task)

\* C31 (as stated): once the accumulated unique results have reached the
\* task's max_searches budget, no search is in flight for a remaining query
C31_NoSearchAfterBudget == searchAgent.pc = "searching" => ~BudgetReached

\* C31 (amended): once the accumulated unique results have reached the task's
\* max_searches budget, no further result is accumulated from the searches
\* issued for the remaining queries, and the budget is never exceeded
C31_NoResultAfterBudget ==
  /\ [](Len(searchAgent.allResults) <= maxResultsOf(searchAgent.task))
  /\ [][BudgetReached => searchAgent'.allResults = searchAgent.allResults]_vars

\* the budget was reached by the first search, the second search was issued
\* all the same and listed a URL not seen before, which was not accumulated
C31_Witness ==
  /\ searchAgent.pc = "evaluate"
  /\ searchAgent.invocations = <<"ok", "ok">>
  /\ BudgetReached
  /\ \E k \in 1..Len(searchAgent.seen) :
       /\ searchAgent.seen[k].title[1] = 2
       /\ \A j \in 1..Len(searchAgent.allResults) :
            searchAgent.allResults[j].url # searchAgent.seen[k].url

\* C32: for every matched claim, its [N] marker stands immediately after that
\* claim's own text in the returned report, whatever the other matches are
C32_MarkerRightAfterOwnClaim ==
  CitedReturn =>
    LET rep == citationAgent.result.report IN
    \A i \in 1..Len(citationAgent.matches) :
      \E k \in 1..(Len(rep) - 1) :
        /\ rep[k] = Sentence(citationAgent.matches[i].claim)
        /\ rep[k + 1] = Marker(citationAgent.matches[i].citationNumber)

\* C33: the citations returned from the try block hold each source URL at most
\* once and their ids are 1..n in ascending order, n the number of entries
C33_UniqueUrlsConsecutiveIds ==
  CitedReturn =>
    LET cs == citationAgent.result.citations IN
    /\ \A i, j \in 1..Len(cs) : cs[i].url = cs[j].url => i = j
    /\ \A i \in 1..Len(cs) : cs[i].id = i

\* C34: what addCitations returns from its try block passes validateCitations
C34_ReturnPassesValidation ==
  CitedReturn =>
    validateCitations(citationAgent.result.report, citationAgent.result.citations) = {}

\* the queries of one returned list differ pairwise
DistinctQueries(qs) == \A i, j \in 1..Len(qs) : qs[i] = qs[j] => i = j

-----------------------------------------------------------------------------
\* Search tool and cache properties (RequestSpec)

\* C36: one search request makes at most maxRetries = 2 HTTP attempts; a
\* further attempt follows a retryable failure only, and after the last
\* attempt the error is reported, not retried
C36_AtMostMaxRetriesAttempts ==
  /\ Len(searchRequest.http) <= MaxRetries
  /\ \A k \in 2..Len(searchRequest.http) : searchRequest.http[k - 1] = "retryable"

\* C40: one call of the wrapped function invokes the underlying function at
\* most once: not at all on a cache hit, exactly once on a miss or when Redis
\* is unavailable, also when the underlying function throws
C40_UnderlyingInvokedAtMostOnce ==
  /\ searchRequest.invocations <= 1
  /\ searchRequest.pc \in {"returned", "threw"} =>
       searchRequest.invocations = (IF searchRequest.lookup = "hit" THEN 0 ELSE 1)

\* C37: the request queue runs the enqueued request functions one at a time in
\* enqueue order: the functions are started in ticket order 1, 2, 3, ..., and
\* one is started only when every request started before it has settled,
\* whichever tasks enqueue and however their enqueue calls interleave
C37_OneAtATimeInEnqueueOrder ==
  /\ \A k \in 1..Len(searchQueue.started) : searchQueue.started[k] = k
  /\ searchQueue.settled = SubSeq(searchQueue.started, 1, Len(searchQueue.settled))
  /\ Len(searchQueue.started) - Len(searchQueue.settled) =
       (IF searchQueue.pc = "running" THEN 1 ELSE 0)

\* the third request runs while requests of two other tasks, enqueued
\* meanwhile, wait behind it
C37_Witness ==
  /\ searchQueue.pc = "running"
  /\ Len(searchQueue.settled) = 2
  /\ Len(searchQueue.queue) = 2
  /\ searchQueue.queue[1].owner # searchQueue.inflight.owner
  /\ searchQueue.queue[2].owner # searchQueue.inflight.owner

\* C38: every enqueued request is eventually started and its promise settled,
\* also when it was enqueued while another one was processed or after an
\* earlier one failed; and whenever the queue is empty and the processor holds
\* no request, the processing flag is false
C38_EveryRequestSettlesFlagReleased ==
  /\ \A a \in QueueTasks :
       (searchQueue.task[a].pc = "waiting") ~> (searchQueue.task[a].pc = "got")
  /\ [](\A k \in 1..Len(searchQueue.settled) :
          \E j \in 1..Len(searchQueue.started) :
            searchQueue.started[j] = searchQueue.settled[k])
  /\ []((Len(searchQueue.queue) = 0 /\ searchQueue.inflight = NoItem)
          => ~searchQueue.processing)

\* all is settled and the flag is down after a request failed and a request
\* enqueued behind it succeeded
C38_Witness ==
  /\ ~searchQueue.processing
  /\ Len(searchQueue.settled) = searchQueue.tickets
  /\ \E a, b \in QueueTasks :
       /\ a # b
       /\ searchQueue.task[a].outcomes = <<FALSE>>
       /\ searchQueue.task[b].outcomes = <<TRUE>>
       /\ searchQueue.task[a].pc = "done"
       /\ searchQueue.task[b].pc = "done"
       /\ searchQueue.requests = 1

-----------------------------------------------------------------------------
\* Orchestrator properties (OrchestratorSpec)

\* C39: a sub-task whose agent's completion call fails is recorded with
\* success = false and progress status failed, its response is not handed to
\* synthesis as an answer, and when every sub-task fails so processQuery
\* returns the apology that all agent tasks failed
C39_FailedCompletionRecordedAsFailure ==
  LET failed == {i \in 1..Len(orchestration.completion) :
                   orchestration.completion[i] = "fails"}
  IN /\ \A i \in failed :
          /\ ~orchestration.results[i].success
          /\ orchestration.results[i].status = "failed"
     /\ \A k \in 1..Len(orchestration.answers) : orchestration.answers[k] # ErrorMessage
     /\ (/\ orchestration.pc = "returned"
         /\ Len(orchestration.completion) > 0
         /\ failed = 1..Len(orchestration.completion))
          => orchestration.finalAnswer = AllFailedMessage

====
